---- MODULE Spec2Model ----
(***************************************************************************)
(* WebCraft voxel world: the World container (network.js / world.js), the  *)
(* block registry (blocks.js) and the parts of the Renderer (render.js)    *)
(* that the world talks to: the block-changed event queue and the chunk    *)
(* map.                                                                    *)
(*                                                                         *)
(* JavaScript values.  A block object is a function from property names   *)
(* to integers: flags are 0 / 1, `texture |-> 1` says the property holds a *)
(* function, `metadata |-> 0` holds the empty object, `opacity |-> 3` is   *)
(* 0.3 in tenths.  A property that is absent is absent from the DOMAIN, so *)
(* object spread {...a, ...b} is b @@ a.  null and undefined are the two   *)
(* records Null and Undefined.                                             *)
(***************************************************************************)
EXTENDS Integers, Sequences, FiniteSets, TLC

\* ------------------------------------------------------------------------
\* Bounds of the model
\* ------------------------------------------------------------------------

\* World size handed to the World constructor.  5 is the smallest x / y
\* size for which the constructor returns (findSpawnPoint writes a 5x5
\* platform around the centre column).
SX == 5
SY == 5
SZ == 2

\* Cap on the renderer's event queue (nothing in the program drains it).
MaxEvents == 2

\* Cap on the buffers alive when a world is set (setWorld deletes none).
MaxLeaked == 1

\* Cap on a player's count of block updates since the last spam check.
MaxBlocks == 6

\* ------------------------------------------------------------------------
\* JavaScript values
\* ------------------------------------------------------------------------

Null == [null |-> 1]
Undefined == [undefined |-> 1]

\* !v for a value that is an object, null or undefined
Falsy(v) == v = Null \/ v = Undefined

\* typeof o.k !== 'undefined'
Has(o, k) == k \in DOMAIN o

\* o.k in a boolean context
Truthy(o, k) == Has(o, k) /\ o[k] # 0

\* { ...a, ...b }
Spread(a, b) == b @@ a

\* What a call leaves to its caller: a returned value or a thrown error.
Return(v) == [kind |-> "return", val |-> v]
Throw(e) == [kind |-> "throw", error |-> e]
Returned(r, v) == r.kind = "return" /\ r.val = v
Threw(r) == r.kind = "throw"

\* const x = v; followed by statements F that read x: the local is
\* computed once, where it is declared.
Const(v, F(_)) == CHOOSE r \in {F(x) : x \in {v}} : TRUE

\* ------------------------------------------------------------------------
\* Block registry (blocks.js)
\* ------------------------------------------------------------------------

defaultBlock ==
    [id |-> 0, spawnable |-> 0, transparent |-> 1, selflit |-> 0,
     gravity |-> 0, fluid |-> 0, texture |-> 1]

\* BLOCK.validateBlockType: defaults merged under the block's own
\* properties; the texture property always ends up a (wrapped) function.
validateBlockType(block) ==
    IF Falsy(block)
    THEN defaultBlock
    ELSE [Spread(defaultBlock, block) EXCEPT !["texture"] = 1]

BLOCK ==
    [BEDROCK |-> validateBlockType([id |-> 1, spawnable |-> 0, transparent |-> 0, texture |-> 1]),
     DIRT |-> validateBlockType([id |-> 2, spawnable |-> 1, transparent |-> 0, selflit |-> 0, gravity |-> 0, fluid |-> 0, texture |-> 1]),
     WOOD |-> validateBlockType([id |-> 3, spawnable |-> 1, transparent |-> 0, selflit |-> 0, gravity |-> 0, fluid |-> 0, texture |-> 1]),
     TNT |-> validateBlockType([id |-> 4, spawnable |-> 1, transparent |-> 0, selflit |-> 0, gravity |-> 0, fluid |-> 0, texture |-> 1]),
     BOOKCASE |-> validateBlockType([id |-> 5, spawnable |-> 1, transparent |-> 0, selflit |-> 0, gravity |-> 0, fluid |-> 0, texture |-> 1]),
     LAVA |-> validateBlockType([id |-> 6, spawnable |-> 0, transparent |-> 1, selflit |-> 1, gravity |-> 1, fluid |-> 1, texture |-> 1]),
     PLANK |-> validateBlockType([id |-> 7, spawnable |-> 1, transparent |-> 0, selflit |-> 0, gravity |-> 0, fluid |-> 0, texture |-> 1]),
     COBBLESTONE |-> validateBlockType([id |-> 8, spawnable |-> 1, transparent |-> 0, selflit |-> 0, gravity |-> 0, fluid |-> 0, texture |-> 1]),
     CONCRETE |-> validateBlockType([id |-> 9, spawnable |-> 1, transparent |-> 0, selflit |-> 0, gravity |-> 0, fluid |-> 0, texture |-> 1]),
     BRICK |-> validateBlockType([id |-> 10, spawnable |-> 1, transparent |-> 0, selflit |-> 0, gravity |-> 0, fluid |-> 0, texture |-> 1]),
     SAND |-> validateBlockType([id |-> 11, spawnable |-> 1, transparent |-> 0, selflit |-> 0, gravity |-> 1, fluid |-> 0, texture |-> 1]),
     GRAVEL |-> validateBlockType([id |-> 12, spawnable |-> 1, transparent |-> 0, selflit |-> 0, gravity |-> 1, fluid |-> 0, texture |-> 1]),
     IRON |-> validateBlockType([id |-> 13, spawnable |-> 1, transparent |-> 0, selflit |-> 0, gravity |-> 0, fluid |-> 0, texture |-> 1]),
     GOLD |-> validateBlockType([id |-> 14, spawnable |-> 1, transparent |-> 0, selflit |-> 0, gravity |-> 0, fluid |-> 0, texture |-> 1]),
     DIAMOND |-> validateBlockType([id |-> 15, spawnable |-> 1, transparent |-> 0, selflit |-> 0, gravity |-> 0, fluid |-> 0, texture |-> 1]),
     OBSIDIAN |-> validateBlockType([id |-> 16, spawnable |-> 1, transparent |-> 0, selflit |-> 0, gravity |-> 0, fluid |-> 0, texture |-> 1]),
     GLASS |-> validateBlockType([id |-> 17, spawnable |-> 1, transparent |-> 1, selflit |-> 0, gravity |-> 0, fluid |-> 0, texture |-> 1]),
     SPONGE |-> validateBlockType([id |-> 18, spawnable |-> 1, transparent |-> 0, selflit |-> 0, gravity |-> 0, fluid |-> 0, texture |-> 1]),
     WATER |-> validateBlockType([id |-> 19, spawnable |-> 0, transparent |-> 1, selflit |-> 0, gravity |-> 1, fluid |-> 1, texture |-> 1]),
     LEAVES |-> validateBlockType([id |-> 20, spawnable |-> 1, transparent |-> 1, selflit |-> 0, gravity |-> 0, fluid |-> 0, texture |-> 1]),
     ROCK |-> validateBlockType([id |-> 21, spawnable |-> 1, transparent |-> 0, selflit |-> 0, gravity |-> 0, fluid |-> 0, texture |-> 1]),
     AIR |-> validateBlockType([id |-> 0, spawnable |-> 0, transparent |-> 1, selflit |-> 0, gravity |-> 0, fluid |-> 0, texture |-> 1])]

BlockTypes == DOMAIN BLOCK
Registry == {BLOCK[t] : t \in BlockTypes}

\* What charCodeAt returns past the end of the string, and what arithmetic
\* on it gives: not a number.
NaN == 1000000

\* BLOCK.fromId: the registry entry with that id, the default block for a
\* negative or unknown id (NaN is neither negative nor equal to any id).
fromId(id) ==
    IF id # NaN /\ id < 0
    THEN validateBlockType(Null)
    ELSE IF \E t \in BlockTypes : BLOCK[t].id = id
         THEN validateBlockType(BLOCK[CHOOSE t \in BlockTypes : BLOCK[t].id = id])
         ELSE validateBlockType(Null)

\* ------------------------------------------------------------------------
\* World (network.js): pure parts
\* ------------------------------------------------------------------------

Cells == (0 .. SX - 1) \X (0 .. SY - 1) \X (0 .. SZ - 1)
Columns == (0 .. SX - 1) \X (0 .. SY - 1)

\* isInBounds without the upper test on z.
isInBounds_noUpperZ(x, y, z) ==
    x >= 0 /\ x < SX /\ y >= 0 /\ y < SY /\ z >= 0

isInBounds(x, y, z) ==
    x >= 0 /\ x < SX /\ y >= 0 /\ y < SY /\ z >= 0 /\ z < SZ

\* validateBlock applying the x-ray transform to every non-air block.
validateBlock_alwaysXray(block) ==
    IF Falsy(block) \/ ~Has(block, "id")
    THEN BLOCK.AIR
    ELSE IF block.id = BLOCK.AIR.id
    THEN BLOCK.AIR
    ELSE Spread(block, [transparent |-> 1, opacity |-> 3])

\* World.validateBlock
validateBlock(block) ==
    IF Falsy(block) \/ ~Has(block, "id")
    THEN BLOCK.AIR
    ELSE IF block.id = BLOCK.AIR.id
    THEN BLOCK.AIR
    ELSE IF Truthy(block, "rentgenView")
    THEN Spread(block, [transparent |-> 1, opacity |-> 3])
    ELSE IF Truthy(block, "xray")
    THEN Spread(block, [transparent |-> 1, opacity |-> 3])
    ELSE validateBlockType(block)

\* this.blocks[x][y][z] as JavaScript evaluates it: indexing undefined
\* throws, an index past the end of the innermost array reads undefined.
\* (The spawn platform may have grown a column's array past sz with AIR;
\* validateBlock maps both that AIR and undefined to AIR.)
blocksAt(blocks, x, y, z) ==
    IF x < 0 \/ x >= SX \/ y < 0 \/ y >= SY
    THEN Throw("TypeError")
    ELSE IF z < 0 \/ z >= SZ
    THEN Return(Undefined)
    ELSE Return(blocks[<<x, y, z>>])

\* getBlock without the upper test on z.
getBlock_noUpperZ(blocks, x, y, z) ==
    IF x < 0 \/ y < 0 \/ z < 0 \/ x >= SX \/ y >= SY
    THEN Return(Null)
    ELSE LET cell == blocksAt(blocks, x, y, z)
         IN  IF Threw(cell) THEN cell ELSE Return(validateBlock(cell.val))

\* World.getBlock
getBlock(blocks, x, y, z) ==
    IF x < 0 \/ y < 0 \/ z < 0 \/ x >= SX \/ y >= SY \/ z >= SZ
    THEN Return(Null)
    ELSE LET cell == blocksAt(blocks, x, y, z)
         IN  IF Threw(cell) THEN cell ELSE Return(validateBlock(cell.val))

\* this.blocks[x][y][z] = v as JavaScript evaluates it: indexing undefined
\* throws, a write past the end of the innermost array grows that array
\* and touches no cell inside the world.
blocksPut(blocks, x, y, z, v) ==
    IF x < 0 \/ x >= SX \/ y < 0 \/ y >= SY
    THEN [ret |-> Throw("TypeError"), blocks |-> blocks]
    ELSE IF z < 0 \/ z >= SZ
    THEN [ret |-> Return(Undefined), blocks |-> blocks]
    ELSE [ret |-> Return(Undefined), blocks |-> [blocks EXCEPT ![<<x, y, z>>] = v]]

\* setBlock storing null / undefined as given.
setBlock_storesNull(blocks, hasRenderer, x, y, z, type) ==
    IF ~isInBounds(x, y, z)
    THEN [ret |-> Return(FALSE), blocks |-> blocks, notify |-> <<>>]
    ELSE LET block == IF Falsy(type) THEN type
                      ELSE IF Truthy(type, "xray")
                      THEN Spread(type, [transparent |-> 1, opacity |-> 3, metadata |-> 0])
                      ELSE Spread(validateBlock(type), [metadata |-> 0])
         IN  [ret |-> Return(TRUE),
              blocks |-> blocksPut(blocks, x, y, z, block).blocks,
              notify |-> IF hasRenderer /\ ~Truthy(type, "xray")
                         THEN <<[type |-> "blockChanged", x |-> x, y |-> y, z |-> z]>>
                         ELSE <<>>]

\* World.setBlock( x, y, z, type, metadata = {} ): what it returns or
\* throws, the grid it leaves and the onBlockChanged calls it makes.
setBlock(blocks, hasRenderer, x, y, z, type) ==
    IF ~isInBounds(x, y, z)
    THEN [ret |-> Return(FALSE), blocks |-> blocks, notify |-> <<>>]
    ELSE IF Falsy(type)
    THEN \* type.xray on null / undefined
         [ret |-> Throw("TypeError"), blocks |-> blocks, notify |-> <<>>]
    ELSE LET block == IF Truthy(type, "xray")
                      THEN Spread(type, [transparent |-> 1, opacity |-> 3])
                      ELSE validateBlock(type)
             put == blocksPut(blocks, x, y, z, Spread(block, [metadata |-> 0]))
         IN  IF Threw(put.ret)
             THEN [ret |-> put.ret, blocks |-> blocks, notify |-> <<>>]
             ELSE [ret |-> Return(TRUE),
                   blocks |-> put.blocks,
                   notify |-> IF hasRenderer /\ ~Truthy(type, "xray")
                              THEN <<[type |-> "blockChanged", x |-> x, y |-> y, z |-> z]>>
                              ELSE <<>>]

\* World.updateLighting for a world of the given size: per column, scan
\* down from the top for the first cell that is not transparent; sz - 1
\* when the column has none.
RECURSIVE lightScan(_, _, _, _, _)
lightScan(blocks, sz, x, y, z) ==
    IF z < 0
    THEN sz - 1
    ELSE IF ~Truthy(blocks[<<x, y, z>>], "transparent")
    THEN z
    ELSE lightScan(blocks, sz, x, y, z - 1)

updateLighting(blocks, sx, sy, sz) ==
    [c \in (0 .. sx - 1) \X (0 .. sy - 1) |-> lightScan(blocks, sz, c[1], c[2], sz - 1)]

\* updateLightingAt with every column lit
updateLightingAt_allColumns(blocks, lightmap, x, y, z) ==
    [c \in DOMAIN lightmap |-> 15]

\* The loop of updateLightingAt over the neighbours from the i-th on
RECURSIVE propagate(_, _, _, _, _)
propagate(blocks, lightmap, neighbors, i, lightLevel) ==
    IF i > Len(neighbors)
    THEN lightmap
    ELSE LET n == neighbors[i]
             lit == IF lightmap[<<n[1], n[2]>>] > lightLevel - 1
                    THEN lightmap[<<n[1], n[2]>>] ELSE lightLevel - 1
         IN  IF /\ isInBounds(n[1], n[2], n[3])
                /\ ~Falsy(blocks[n])
                /\ Truthy(blocks[n], "transparent")
             THEN propagate(blocks, [lightmap EXCEPT ![<<n[1], n[2]>>] = lit], neighbors,
                            i + 1, lightLevel)
             ELSE propagate(blocks, lightmap, neighbors, i + 1, lightLevel)

\* World.updateLightingAt( x, y, z ): the lightmap it leaves.  Nothing for a
\* cell outside the world, an empty cell or a transparent block; otherwise
\* the column's entry is raised to the block's light level (15 if selflit,
\* 0 if not) and the entry of each of the six neighbours that holds a
\* transparent block to that level less one.
updateLightingAt(blocks, lightmap, x, y, z) ==
    IF ~isInBounds(x, y, z)
    THEN lightmap
    ELSE IF Falsy(blocks[<<x, y, z>>]) \/ Truthy(blocks[<<x, y, z>>], "transparent")
    THEN lightmap
    ELSE LET lightLevel == IF Truthy(blocks[<<x, y, z>>], "selflit") THEN 15 ELSE 0
             own == IF lightmap[<<x, y>>] > lightLevel THEN lightmap[<<x, y>>] ELSE lightLevel
             neighbors == << <<x + 1, y, z>>, <<x - 1, y, z>>, <<x, y + 1, z>>,
                             <<x, y - 1, z>>, <<x, y, z + 1>>, <<x, y, z - 1>> >>
         IN  propagate(blocks, [lightmap EXCEPT ![<<x, y>>] = own], neighbors, 1, lightLevel)

\* ------------------------------------------------------------------------
\* World: construction
\* ------------------------------------------------------------------------
\* What a generation run draws from outside is gathered in a record env:
\*   heights  column -> finalHeight (the seeded simplex noise, scaled)
\*   trees    columns where Math.random() < treeChance
\*   trunk    column -> tree height, 5 + floor(Math.random() * 3)
\*   caves    cells where the Perlin cave noise exceeds the local threshold
\*   deep     cells where it exceeds the threshold by more than 0.1
\*   cavity   cells for which createCavity draws Math.random() < 0.3

cellsOf(sx, sy, sz) == (0 .. sx - 1) \X (0 .. sy - 1) \X (0 .. sz - 1)
columnsOf(sx, sy) == (0 .. sx - 1) \X (0 .. sy - 1)

\* isInBounds on a world of the given size
isInBoundsOf(sx, sy, sz, x, y, z) ==
    x >= 0 /\ x < sx /\ y >= 0 /\ y < sy /\ z >= 0 /\ z < sz

baseHeight(sz) == sz \div 2
waterLevel(sz) == sz \div 2

\* finalHeight = floor(baseHeight + h * (sz / 2) * 0.3) for a noise value h
\* in [0, 1]: every height from baseHeight to baseHeight + floor(0.15 sz).
finalHeights(sz) == baseHeight(sz) .. (baseHeight(sz) + (3 * sz) \div 20)

\* One cell of a terrain column (generateTerrain's column fill).
terrainColumn(sz, z, finalHeight) ==
    IF z = 0 THEN validateBlock(BLOCK.BEDROCK)
    ELSE IF z < finalHeight - 4 THEN validateBlock(BLOCK.ROCK)
    ELSE IF z < finalHeight - 1 THEN validateBlock(BLOCK.DIRT)
    ELSE IF z < finalHeight THEN validateBlock(BLOCK.DIRT)
    ELSE IF z <= waterLevel(sz) THEN validateBlock(BLOCK.WATER)
    ELSE validateBlock(BLOCK.AIR)

\* The column loops reach a no later than b (x outer, y inner).
columnBefore(a, b) == a[1] < b[1] \/ (a[1] = b[1] /\ a[2] <= b[2])

\* A tree is added at column t: the draw succeeded, the surface is above
\* the water and addTree's two bounds tests pass.
treeAt(sx, sy, sz, env, t) ==
    /\ t \in env.trees
    /\ env.heights[t] > waterLevel(sz)
    /\ isInBoundsOf(sx, sy, sz, t[1] + 2, t[2] + 2, env.heights[t] + 6)
    /\ isInBoundsOf(sx, sy, sz, t[1] - 2, t[2] - 2, env.heights[t])

\* addTree's trunk loop writes (t, z).
trunkCell(env, t, z) ==
    z >= env.heights[t] /\ z < env.heights[t] + env.trunk[t]

\* addTree's leaf loops visit (x, y, z): layers lz = 0..3 from
\* z + height - 3, radius 1 on the first and last layer and 2 between,
\* inside sqrt(lx^2 + ly^2) <= radius + 0.5.
leafCell(env, t, x, y, z) ==
    LET lz == z - (env.heights[t] + env.trunk[t] - 3)
        lx == x - t[1]
        ly == y - t[2]
        radius == IF lz = 0 \/ lz = 3 THEN 1 ELSE 2
    IN  /\ lz >= 0 /\ lz <= 3
        /\ lx >= -radius /\ lx <= radius
        /\ ly >= -radius /\ ly <= radius
        /\ 4 * (lx * lx + ly * ly) <= (2 * radius + 1) * (2 * radius + 1)

\* Cell (x, y, z) when the column loops of generateTerrain are done.  A
\* column's fill overwrites what earlier trees put there; its own trunk
\* comes next; leaves of its own tree and of trees at later columns are
\* written where the cell is still AIR.
addTree(sx, sy, sz, env, x, y, z) ==
    LET fill == terrainColumn(sz, z, env.heights[<<x, y>>])
        own == IF treeAt(sx, sy, sz, env, <<x, y>>) /\ trunkCell(env, <<x, y>>, z)
               THEN validateBlock(BLOCK.WOOD)
               ELSE fill
    IN  IF /\ own.id = BLOCK.AIR.id
           /\ \E t \in env.trees :
                 /\ treeAt(sx, sy, sz, env, t)
                 /\ columnBefore(<<x, y>>, t)
                 /\ leafCell(env, t, x, y, z)
        THEN validateBlock(BLOCK.LEAVES)
        ELSE own

\* createCavity around (x, y, z): each of the 27 cells around it that is in
\* bounds, neither AIR nor WATER, and whose draw succeeds becomes AIR.
createCavity(blocks, sx, sy, sz, env, x, y, z) ==
    [c \in DOMAIN blocks |->
        IF /\ c[1] >= x - 1 /\ c[1] <= x + 1
           /\ c[2] >= y - 1 /\ c[2] <= y + 1
           /\ c[3] >= z - 1 /\ c[3] <= z + 1
           /\ isInBoundsOf(sx, sy, sz, c[1], c[2], c[3])
           /\ blocks[c].id # BLOCK.AIR.id
           /\ blocks[c].id # BLOCK.WATER.id
           /\ c \in env.cavity
        THEN validateBlock(BLOCK.AIR)
        ELSE blocks[c]]

\* The i-th cell of generateCaves' loops: x outer, y, then z from
\* minHeight = 5 up to maxHeight = sz - 10 (excluded).
caveCells(sx, sy, sz) == IF sz - 15 > 0 THEN sx * sy * (sz - 15) ELSE 0

caveCell(sy, sz, i) ==
    <<i \div (sy * (sz - 15)), (i \div (sz - 15)) % sy, 5 + (i % (sz - 15))>>

\* generateCaves from the i-th cell on.
RECURSIVE generateCaves(_, _, _, _, _, _)
generateCaves(blocks, sx, sy, sz, env, i) ==
    IF i >= caveCells(sx, sy, sz)
    THEN blocks
    ELSE LET c == caveCell(sy, sz, i)
             carved == [blocks EXCEPT ![c] = validateBlock(BLOCK.AIR)]
         IN  IF blocks[c].id = BLOCK.AIR.id \/ blocks[c].id = BLOCK.WATER.id
             THEN generateCaves(blocks, sx, sy, sz, env, i + 1)
             ELSE IF c \notin env.caves
             THEN generateCaves(blocks, sx, sy, sz, env, i + 1)
             ELSE IF c \notin env.deep
             THEN generateCaves(carved, sx, sy, sz, env, i + 1)
             ELSE generateCaves(createCavity(carved, sx, sy, sz, env, c[1], c[2], c[3]),
                                sx, sy, sz, env, i + 1)

\* Spawn column and height: floor(sx / 2), floor(sy / 2), floor(0.6 sz).
spawnX(sx) == sx \div 2
spawnY(sy) == sy \div 2
spawnZ(sz) == (3 * sz) \div 5

\* The 5x5 platform written by generateTerrain and again by findSpawnPoint:
\* DIRT under the spawn height, AIR at it and above it.
onPlatform(sx, sy, x, y) ==
    /\ x >= spawnX(sx) - 2 /\ x <= spawnX(sx) + 2
    /\ y >= spawnY(sy) - 2 /\ y <= spawnY(sy) + 2

\* blocks[x][y] is an array for every platform column; writing the platform
\* throws a TypeError otherwise.
platformFits(sx, sy) ==
    \A x \in spawnX(sx) - 2 .. spawnX(sx) + 2, y \in spawnY(sy) - 2 .. spawnY(sy) + 2 :
        x >= 0 /\ x < sx /\ y >= 0 /\ y < sy

\* The elements of the nested arrays once the platform is written: the
\* grid, and the platform's three layers even where they lie under z = 0
\* or above z = sz - 1.
rawCells(sx, sy, sz) ==
    cellsOf(sx, sy, sz)
        \cup {c \in (spawnX(sx) - 2 .. spawnX(sx) + 2) \X (spawnY(sy) - 2 .. spawnY(sy) + 2)
                       \X (spawnZ(sz) - 1 .. spawnZ(sz) + 1) : TRUE}

\* platformCell clearing only the layer at the spawn height.
platformCell_oneAirLayer(sx, sy, sz, old, x, y, z) ==
    IF ~onPlatform(sx, sy, x, y) THEN old
    ELSE IF z = spawnZ(sz) - 1 THEN validateBlock(BLOCK.DIRT)
    ELSE IF z = spawnZ(sz) THEN validateBlock(BLOCK.AIR)
    ELSE old

platformCell(sx, sy, sz, old, x, y, z) ==
    IF ~onPlatform(sx, sy, x, y) THEN old
    ELSE IF z = spawnZ(sz) - 1 THEN validateBlock(BLOCK.DIRT)
    ELSE IF z = spawnZ(sz) \/ z = spawnZ(sz) + 1 THEN validateBlock(BLOCK.AIR)
    ELSE old

\* World.createFlatWorld( height )
createFlatWorld(sx, sy, sz, height) ==
    IF height < 0 \/ height > sz
    THEN Throw("Error: Invalid height for flat world.")
    ELSE Return([c \in cellsOf(sx, sy, sz) |-> IF c[3] < height THEN BLOCK.DIRT ELSE BLOCK.AIR])

\* World.generateTerrain: column fill and trees, caves, platform,
\* validation pass; the flat world when any of it throws, which is when
\* the platform does not fit.
platformAndValidation(sx, sy, sz, caves) ==
    [c \in rawCells(sx, sy, sz) |->
        IF c \in DOMAIN caves
        THEN validateBlock(platformCell(sx, sy, sz, caves[c], c[1], c[2], c[3]))
        ELSE platformCell(sx, sy, sz, Undefined, c[1], c[2], c[3])]

generateTerrain(sx, sy, sz, env) ==
    IF ~platformFits(sx, sy)
    THEN createFlatWorld(sx, sy, sz, sz \div 2)
    ELSE Return(platformAndValidation(sx, sy, sz,
            generateCaves([c \in cellsOf(sx, sy, sz) |->
                              addTree(sx, sy, sz, env, c[1], c[2], c[3])],
                          sx, sy, sz, env, 0)))

\* World.findSpawnPoint: the platform again, outside any try.
findSpawnPoint(blocks, sx, sy, sz) ==
    IF ~platformFits(sx, sy)
    THEN [ret |-> Throw("TypeError"), blocks |-> blocks]
    ELSE [ret |-> Return(<<spawnX(sx), spawnY(sy), spawnZ(sz)>>),
          blocks |-> [c \in rawCells(sx, sy, sz) |->
                        platformCell(sx, sy, sz,
                                     IF c \in DOMAIN blocks THEN blocks[c] ELSE Undefined,
                                     c[1], c[2], c[3])]]

\* new World( sx, sy, sz )
\* The constructor after findSpawnPoint: the World object with its lightmap,
\* or the error findSpawnPoint threw.
afterSpawnPoint(sx, sy, sz, spawn) ==
    IF Threw(spawn.ret)
    THEN spawn.ret
    ELSE Return([sx |-> sx, sy |-> sy, sz |-> sz,
                 blocks |-> spawn.blocks,
                 spawnPoint |-> spawn.ret.val,
                 lightmap |-> updateLighting(spawn.blocks, sx, sy, sz)])

\* The constructor after generateTerrain
afterTerrain(sx, sy, sz, terrain) ==
    IF Threw(terrain)
    THEN terrain
    ELSE afterSpawnPoint(sx, sy, sz, findSpawnPoint(terrain.val, sx, sy, sz))

newWorld(sx, sy, sz, env) ==
    IF sx <= 0 \/ sy <= 0 \/ sz <= 0
    THEN Throw("Error: World dimensions must be positive non-zero values.")
    ELSE afterTerrain(sx, sy, sz, generateTerrain(sx, sy, sz, env))

\* World.generateWorld( sx, sy, sz ): the promise's outcome
rejectOrResolve(world) ==
    IF Threw(world)
    THEN Throw("Error: Failed to generate world: " \o world.error)
    ELSE world

generateWorld(sx, sy, sz, env) ==
    IF sx <= 0 \/ sy <= 0 \/ sz <= 0
    THEN Throw("Error: Failed to generate world: World dimensions must be positive")
    ELSE IF sx > 254 \/ sy > 254 \/ sz > 254
    THEN Throw("Error: Failed to generate world: World dimensions cannot exceed 254")
    ELSE rejectOrResolve(newWorld(sx, sy, sz, env))

\* ------------------------------------------------------------------------
\* World: serialization
\* ------------------------------------------------------------------------

\* The cells in the order the three nested loops visit them:
\* x outermost, then y, z innermost.
RECURSIVE loopZ(_, _, _)
loopZ(x, y, z) ==
    IF z >= SZ THEN <<>> ELSE <<<<x, y, z>>>> \o loopZ(x, y, z + 1)

RECURSIVE loopY(_, _)
loopY(x, y) ==
    IF y >= SY THEN <<>> ELSE loopZ(x, y, 0) \o loopY(x, y + 1)

RECURSIVE loopX(_)
loopX(x) ==
    IF x >= SX THEN <<>> ELSE loopY(x, 0) \o loopX(x + 1)

cellOrder == loopX(0)

\* The value of the running counter i when the loops reach a cell.
visitIndex == [c \in Cells |-> CHOOSE i \in 0 .. Len(cellOrder) - 1 : cellOrder[i + 1] = c]

\* str.charCodeAt(i), i counted from 0
charCodeAt(str, i) == IF i >= 0 /\ i < Len(str) THEN str[i + 1] ELSE NaN

minus(a, b) == IF a = NaN THEN NaN ELSE a - b

\* createFromString decoding with offset 96.
createFromString_offset96(blocks, str) ==
    IF Len(str) # SX * SY * SZ
    THEN [ret |-> Throw("Error: String length does not match world dimensions."),
          blocks |-> blocks]
    ELSE [ret |-> Return(Undefined),
          blocks |-> [c \in Cells |-> fromId(minus(charCodeAt(str, visitIndex[c]), 96))]]

\* createFromString without the length test.
createFromString_noLengthCheck(blocks, str) ==
    [ret |-> Return(Undefined),
     blocks |-> [c \in Cells |-> fromId(minus(charCodeAt(str, visitIndex[c]), 97))]]

\* World.createFromString: throws on a length mismatch before touching the
\* grid; otherwise every cell is decoded from the character the counter i
\* points at when the loops reach it.
createFromString(blocks, str) ==
    IF Len(str) # SX * SY * SZ
    THEN [ret |-> Throw("Error: String length does not match world dimensions."),
          blocks |-> blocks]
    ELSE [ret |-> Return(Undefined),
          blocks |-> [c \in Cells |-> fromId(minus(charCodeAt(str, visitIndex[c]), 97))]]

\* toNetworkString with the y and z loops exchanged.
toNetworkString_zBeforeY(blocks) ==
    [i \in 1 .. SX * SY * SZ |->
        LET x == (i - 1) \div (SY * SZ)
            z == ((i - 1) \div SY) % SZ
            y == (i - 1) % SY
        IN  97 + validateBlock(blocks[<<x, y, z>>]).id]

\* World.toNetworkString: one character per cell visited, 97 + id of the
\* validated cell.
toNetworkString(blocks) ==
    [i \in 1 .. Len(cellOrder) |-> 97 + validateBlock(blocks[cellOrder[i]]).id]

\* toNetworkString on a World object of any size
worldString(world) ==
    [i \in 1 .. world.sx * world.sy * world.sz |->
        LET x == (i - 1) \div (world.sy * world.sz)
            y == ((i - 1) \div world.sz) % world.sy
            z == (i - 1) % world.sz
        IN  97 + validateBlock(world.blocks[<<x, y, z>>]).id]

\* ------------------------------------------------------------------------
\* Renderer (render.js): chunk map and streaming
\* ------------------------------------------------------------------------

\* Renderer fields the streaming methods read
VARIABLES
    chunkSize,       \* renderer.chunkSize
    camPos,          \* renderer.camPos: <<>> until setCamera stores a position
    viewMatrix,      \* renderer.viewMatrix: the angles and position it was built from
    projMatrix       \* renderer.projMatrix: the aspect ratio it was built from

\* this.setWorld( new World( 100, 100, 50 ), 16 ) in the constructor and
\* render.setWorld( world, 16 ) in the game; a chunk size that cuts the
\* small world into several chunks.
defaultChunkSize == 16
smallChunkSize == 2

loadDistance == 8
unloadDistance == 12
maxChunksPerFrame == 2

\* A Map with no entry; put and delete of one key.
emptyMap == [k \in {} |-> 0]
mapSet(m, k, v) == (k :> v) @@ m
mapDelete(m, k) == [j \in DOMAIN m \ {k} |-> m[j]]

\* getChunkKey( x, y, z ) for block coordinates inside the world
getChunkKey(x, y, z) == <<x \div chunkSize, y \div chunkSize, z \div chunkSize>>

\* What gl.createBuffer hands out: an object of its own, named here after
\* the chunk it is made for and a serial number.  `gl` below is the set of
\* buffers created and not deleted.
WebGLBuffer(start, n) == [start |-> start, n |-> n]

\* gl.createBuffer() while `chunk` is built: a buffer distinct from every
\* live one and from the one the chunk held
createBuffer(gl, chunk) ==
    WebGLBuffer(chunk.start,
                CHOOSE n \in 1 .. Cardinality(gl) + 2 :
                   /\ WebGLBuffer(chunk.start, n) \notin gl \cup {chunk.buffer}
                   /\ \A m \in 1 .. n - 1 : WebGLBuffer(chunk.start, m) \in gl \cup {chunk.buffer})

\* BLOCK.pushVertices for one cell: the number of quads pushed, or the
\* TypeError of calling block.texture when the object carries no texture
\* function and a face is visible.
faceTests(blocks, x, y, z) ==
    LET block == blocks[<<x, y, z>>]
        t(nx, ny, nz) == Truthy(blocks[<<nx, ny, nz>>], "transparent")
    IN  << z = SZ - 1 \/ t(x, y, z + 1) \/ Truthy(block, "fluid"),
           z = 0 \/ t(x, y, z - 1),
           y = 0 \/ t(x, y - 1, z),
           y = SY - 1 \/ t(x, y + 1, z),
           x = 0 \/ t(x - 1, y, z),
           x = SX - 1 \/ t(x + 1, y, z) >>

pushVertices(blocks, x, y, z) ==
    LET block == blocks[<<x, y, z>>]
        tests == faceTests(blocks, x, y, z)
        quads == Cardinality({i \in 1 .. 6 : tests[i]})
    IN  IF Has(block, "id") /\ block.id = BLOCK.AIR.id
        THEN Return(0)
        ELSE IF quads > 0 /\ ~Has(block, "texture")
        THEN Throw("TypeError")
        ELSE Return(quads)

\* The faces BLOCK.pushVertices has pushed a quad for when it returns or
\* throws (1 top, 2 bottom, 3 front, 4 back, 5 left, 6 right): the call of
\* block.texture for the first visible face throws before any quad is
\* pushed when the object carries no texture function.
pushedFaces(blocks, x, y, z) ==
    LET block == blocks[<<x, y, z>>]
        tests == faceTests(blocks, x, y, z)
    IN  IF Has(block, "id") /\ block.id = BLOCK.AIR.id
        THEN {}
        ELSE IF ~Has(block, "texture")
        THEN {}
        ELSE {i \in 1 .. 6 : tests[i]}

\* Renderer.buildChunk: collect the quads of the chunk's cells; when there
\* is any, delete the chunk's buffer and store a new one; clear the dirty
\* flag.  `alloc` says whether gl.createBuffer hands out a buffer (it
\* returns null on a lost context).
buildChunk_keepsOldBuffer(blocks, chunk, gl, alloc) ==
    IF alloc
    THEN [ret |-> Return(Undefined),
          chunk |-> [chunk EXCEPT !.buffer = createBuffer(gl, chunk), !.dirty = FALSE],
          gl |-> gl \cup {createBuffer(gl, chunk)}]
    ELSE [ret |-> Throw("Error: Failed to create WebGL buffer"),
          chunk |-> [chunk EXCEPT !.buffer = Null], gl |-> gl]

buildChunk(blocks, chunk, gl, alloc) ==
    LET cells == {c \in Cells : /\ c[1] >= chunk.start[1] /\ c[1] < chunk.end[1]
                                /\ c[2] >= chunk.start[2] /\ c[2] < chunk.end[2]
                                /\ c[3] >= chunk.start[3] /\ c[3] < chunk.end[3]}
        pushed == [c \in cells |-> pushVertices(blocks, c[1], c[2], c[3])]
        \* vertexData.length > 0
        anyVertex == \E c \in cells : pushed[c].val > 0
    IN  IF \E c \in cells : Threw(pushed[c])
        THEN [ret |-> Throw("TypeError"), chunk |-> chunk, gl |-> gl]
        ELSE IF anyVertex
        THEN IF alloc
             THEN [ret |-> Return(Undefined),
                   chunk |-> [chunk EXCEPT !.buffer = createBuffer(gl, chunk),
                                           !.dirty = FALSE],
                   gl |-> (gl \ {chunk.buffer}) \cup {createBuffer(gl, chunk)}]
             ELSE [ret |-> Throw("Error: Failed to create WebGL buffer"),
                   chunk |-> [chunk EXCEPT !.buffer = Null],
                   gl |-> gl \ {chunk.buffer}]
        ELSE [ret |-> Return(Undefined), chunk |-> [chunk EXCEPT !.dirty = FALSE], gl |-> gl]

\* Renderer.createChunk: the chunk enters the map dirty and is built at
\* once.
min(a, b) == IF a < b THEN a ELSE b

createChunk_unclipped(blocks, map, gl, x, y, z, alloc) ==
    LET chunk == [start |-> <<x, y, z>>,
                  end |-> <<x + chunkSize, y + chunkSize, z + chunkSize>>,
                  dirty |-> TRUE,
                  buffer |-> Null]
    IN  [ret |-> Return(Undefined), map |-> mapSet(map, getChunkKey(x, y, z), chunk), gl |-> gl]

createChunk(blocks, map, gl, x, y, z, alloc) ==
    LET chunk == [start |-> <<x, y, z>>,
                  end |-> <<min(x + chunkSize, SX), min(y + chunkSize, SY),
                            min(z + chunkSize, SZ)>>,
                  dirty |-> TRUE,
                  buffer |-> Null]
    IN  Const(buildChunk(blocks, chunk, gl, alloc), LAMBDA built :
            [ret |-> built.ret, map |-> mapSet(map, getChunkKey(x, y, z), built.chunk),
             gl |-> built.gl])

\* Whether the i-th createBuffer of a call succeeds
allocAt(alloc, i) == IF i <= Len(alloc) THEN alloc[i] ELSE TRUE

\* Renderer.processChunkQueue: shift and create up to maxChunksPerFrame
\* queued chunks; a throw leaves the rest of the queue behind.
RECURSIVE processChunkQueue(_, _, _, _, _, _)
processChunkQueue_dropsQueue(blocks, map, gl, queue, processed, alloc) ==
    [ret |-> Return(Undefined), map |-> map, queue |-> <<>>, gl |-> gl]

processChunkQueue_wholeQueue(blocks, map, gl, queue, processed, alloc) ==
    IF Len(queue) = 0
    THEN [ret |-> Return(Undefined), map |-> map, queue |-> queue, gl |-> gl]
    ELSE LET made == createChunk(blocks, map, gl, queue[1].x, queue[1].y, queue[1].z,
                                 allocAt(alloc, processed + 1))
         IN  IF Threw(made.ret)
             THEN [ret |-> made.ret, map |-> made.map, queue |-> Tail(queue), gl |-> made.gl]
             ELSE processChunkQueue(blocks, made.map, made.gl, Tail(queue), processed + 1, alloc)

processChunkQueue(blocks, map, gl, queue, processed, alloc) ==
    IF ~(processed < maxChunksPerFrame /\ Len(queue) > 0)
    THEN [ret |-> Return(Undefined), map |-> map, queue |-> queue, gl |-> gl]
    ELSE Const(createChunk(blocks, map, gl, queue[1].x, queue[1].y, queue[1].z,
                           allocAt(alloc, processed + 1)), LAMBDA made :
         Const(Tail(queue), LAMBDA rest :
             IF Threw(made.ret)
             THEN [ret |-> made.ret, map |-> made.map, queue |-> rest, gl |-> made.gl]
             ELSE processChunkQueue(blocks, made.map, made.gl, rest, processed + 1, alloc)))

\* Renderer.buildChunks( count ): rebuild up to count dirty chunks of
\* renderer.chunks in list order; whatever is thrown on the way is caught
\* and logged.  i is the loop index, n the number of chunks built so far.
RECURSIVE buildChunksFrom(_, _, _, _, _, _, _)
buildChunksFrom(blocks, chunks, gl, i, count, n, alloc) ==
    IF i > Len(chunks)
    THEN [ret |-> Return(Undefined), chunks |-> chunks, gl |-> gl, logged |-> FALSE]
    ELSE IF ~chunks[i].dirty
    THEN buildChunksFrom(blocks, chunks, gl, i + 1, count, n, alloc)
    ELSE LET built == buildChunk(blocks, chunks[i], gl, allocAt(alloc, n + 1))
             next == [chunks EXCEPT ![i] = built.chunk]
         IN  IF Threw(built.ret)
             THEN [ret |-> Return(Undefined), chunks |-> next, gl |-> built.gl, logged |-> TRUE]
             ELSE IF count - 1 = 0
             THEN [ret |-> Return(Undefined), chunks |-> next, gl |-> built.gl, logged |-> FALSE]
             ELSE buildChunksFrom(blocks, next, built.gl, i + 1, count - 1, n + 1, alloc)

buildChunks(blocks, chunks, gl, count, alloc) ==
    buildChunksFrom(blocks, chunks, gl, 1, count, 0, alloc)

\* Renderer.buildChunksAroundPlayer( playerPos, count ): the dirty chunks
\* nearest first (by the distance of the chunk's centre, compared here on
\* doubled coordinates), until count of them got a buffer; whatever is
\* thrown is caught and logged.
centreDistance2(chunk, playerPos) ==
    LET d(i) == chunk.start[i] + chunk.end[i] - 2 * playerPos[i]
    IN  d(1) * d(1) + d(2) * d(2) + d(3) * d(3)

nearestDirty(chunks, playerPos) ==
    CHOOSE i \in DOMAIN chunks :
        /\ chunks[i].dirty
        /\ \A j \in DOMAIN chunks : chunks[j].dirty =>
              \/ centreDistance2(chunks[i], playerPos) < centreDistance2(chunks[j], playerPos)
              \/ /\ centreDistance2(chunks[i], playerPos) = centreDistance2(chunks[j], playerPos)
                 /\ i <= j

RECURSIVE buildChunksAroundPlayer(_, _, _, _, _, _, _)
buildChunksAroundPlayer(blocks, chunks, gl, playerPos, count, n, alloc) ==
    IF count <= 0 \/ \A i \in DOMAIN chunks : ~chunks[i].dirty
    THEN [ret |-> Return(Undefined), chunks |-> chunks, gl |-> gl, logged |-> FALSE]
    ELSE LET i == nearestDirty(chunks, playerPos)
             built == buildChunk(blocks, chunks[i], gl, allocAt(alloc, n + 1))
             next == [chunks EXCEPT ![i] = built.chunk]
         IN  IF Threw(built.ret)
             THEN [ret |-> Return(Undefined), chunks |-> next, gl |-> built.gl, logged |-> TRUE]
             ELSE buildChunksAroundPlayer(blocks, next, built.gl, playerPos,
                                          IF built.chunk.buffer = chunks[i].buffer
                                          THEN count ELSE count - 1,
                                          n + 1, alloc)

\* Renderer.updateViewport() once the canvas changed size: every chunk of
\* the list and of the map is marked dirty, then buildChunks( 10 ).
markDirty(chunk) == [chunk EXCEPT !.dirty = TRUE]

updateViewport(blocks, chunks, gl, alloc) ==
    buildChunks(blocks, [i \in DOMAIN chunks |-> markDirty(chunks[i])], gl, 10, alloc)

\* Renderer.processEvents(): buildChunks( 1 ) for each of the n queued
\* blockChanged events.
RECURSIVE processEvents(_, _, _, _, _)
processEvents(blocks, chunks, gl, n, alloc) ==
    IF n = 0
    THEN [ret |-> Return(Undefined), chunks |-> chunks, gl |-> gl, logged |-> FALSE]
    ELSE LET out == buildChunks(blocks, chunks, gl, 1, alloc)
         IN  processEvents(blocks, out.chunks, out.gl, n - 1, alloc)

\* a.priority - b.priority < 0, where priority = sqrt(d2) - bonus and the
\* bonus is 0 or 2: decided exactly on the squares.
priorityLess(a, b) ==
    IF a.bonus = b.bonus THEN a.d2 < b.d2
    ELSE IF a.bonus > b.bonus
    THEN LET k == a.d2 - b.d2 - 4 IN k < 0 \/ k * k < 16 * b.d2
    ELSE LET k == b.d2 - a.d2 - 4 IN k > 0 /\ 16 * a.d2 < k * k

\* Array.prototype.sort with that comparator: stable.
RECURSIVE insertSorted(_, _)
insertSorted(sorted, e) ==
    IF sorted = <<>> THEN <<e>>
    ELSE IF priorityLess(e, sorted[Len(sorted)])
    THEN Const(SubSeq(sorted, 1, Len(sorted) - 1),
               LAMBDA front : Append(insertSorted(front, e), sorted[Len(sorted)]))
    ELSE Append(sorted, e)

sortQueue_unsorted(queue, n) == queue

RECURSIVE sortQueue(_, _)
sortQueue(queue, n) ==
    IF n = 0 THEN <<>>
    ELSE Const(sortQueue(queue, n - 1), LAMBDA sorted : insertSorted(sorted, queue[n]))

\* The chunk coordinates one loop of updateChunksAroundPlayer visits on an
\* axis without `continue`: p - loadDistance .. p + loadDistance, kept when
\* the chunk origin is inside the world on that axis (isInBounds is the
\* conjunction of the three axis tests).
RECURSIVE axisChunks(_, _, _)
axisChunks(c, hi, size) ==
    IF c > hi THEN <<>>
    ELSE IF c * chunkSize >= 0 /\ c * chunkSize < size
    THEN <<c>> \o axisChunks(c + 1, hi, size)
    ELSE axisChunks(c + 1, hi, size)

\* Math.cos and Math.sin of a whole number of radians 0 .. 31, in
\* thousandths.
cosTable ==
    << 1000, 540, -416, -990, -654, 284, 960, 754, -146, -911, -839, 4, 844, 907,
       137, -760, -958, -275, 660, 989, 408, -548, -1000, -533, 424, 991, 647,
       -292, -963, -748, 154, 915 >>

sinTable ==
    << 0, 841, 909, 141, -757, -959, -279, 657, 989, 412, -544, -1000, -537, 420,
       991, 650, -288, -961, -751, 150, 913, 837, -9, -846, -906, -132, 763, 956,
       271, -664, -988, -404 >>

cos(a) == cosTable[a + 1]
sin(a) == sinTable[a + 1]

\* The view direction updateChunksAroundPlayer computes, in millionths:
\* from this.camPos[1] and this.camPos[0], the y and x of the position
\* setCamera stored.
viewVector(pos) ==
    << cos(pos[2]) * cos(pos[1]), sin(pos[2]) * cos(pos[1]), 1000 * sin(pos[1]) >>

\* gl-matrix on 4x4 matrices in thousandths (rows of columns; products are
\* brought back to thousandths, rounding down).
identity ==
    << <<1000, 0, 0, 0>>, <<0, 1000, 0, 0>>, <<0, 0, 1000, 0>>, <<0, 0, 0, 1000>> >>

\* mat4.multiply( out, a, b )
multiply(a, b) ==
    Const(<<a, b>>, LAMBDA ab :
    LET cell(i, j) ==
            (ab[1][i][1] * ab[2][1][j] + ab[1][i][2] * ab[2][2][j]
             + ab[1][i][3] * ab[2][3][j] + ab[1][i][4] * ab[2][4][j]) \div 1000
        row(i) == << cell(i, 1), cell(i, 2), cell(i, 3), cell(i, 4) >>
    IN  << row(1), row(2), row(3), row(4) >>)

\* mat4.rotateX / rotateZ / rotateY( out, a, rad ), given the cosine c and
\* the sine s of rad
rotateX(a, c, s) ==
    multiply(a, << <<1000, 0, 0, 0>>, <<0, c, -s, 0>>, <<0, s, c, 0>>, <<0, 0, 0, 1000>> >>)

rotateZ(a, c, s) ==
    multiply(a, << <<c, -s, 0, 0>>, <<s, c, 0, 0>>, <<0, 0, 1000, 0>>, <<0, 0, 0, 1000>> >>)

rotateY(a, c, s) ==
    multiply(a, << <<c, 0, s, 0>>, <<0, 1000, 0, 0>>, <<-s, 0, c, 0>>, <<0, 0, 0, 1000>> >>)

\* mat4.translate( out, a, v )
translate(a, v) ==
    multiply(a, << <<1000, 0, 0, 1000 * v[1]>>, <<0, 1000, 0, 1000 * v[2]>>,
                   <<0, 0, 1000, 1000 * v[3]>>, <<0, 0, 0, 1000>> >>)

\* The view matrix setCamera( pos, ang ) builds: rotateX by -ang[0] - PI/2
\* (cosine -sin ang[0], sine -cos ang[0]), rotateZ by ang[1], rotateY by
\* -ang[2], translate by -pos.  Before any setCamera it is the identity.
setCamera(pos, ang) ==
    translate(rotateY(rotateZ(rotateX(identity, -sin(ang[1]), -cos(ang[1])),
                              cos(ang[2]), sin(ang[2])),
                      cos(ang[3]), -sin(ang[3])),
              << -pos[1], -pos[2], -pos[3] >>)

\* 1 / tan( PI / 8 ), the focal length for fov = PI / 4, in thousandths
focal == 2414

\* A square canvas and a 16:9 canvas: width / height in thousandths
squareCanvas == 1000
wideCanvas == 1778

\* mat4.perspectiveNO( out, PI / 4, aspect, 0.1, 1000 ):
\* (far + near) / (near - far) = -1.0002, 2 * far * near / (near - far) =
\* -0.20002
perspectiveNO(aspect) ==
    << <<(focal * 1000) \div aspect, 0, 0, 0>>,
       <<0, focal, 0, 0>>,
       <<0, 0, -1000, -200>>,
       <<0, 0, -1000, 0>> >>

\* Renderer.updateFrustumPlanes: left, right, bottom, top, near, far from
\* the rows of projMatrix * viewMatrix (m[3], m[7], m[11], m[15] are row 4;
\* m[0], m[4], m[8], m[12] row 1, and so on).  vec4.normalize scales a
\* plane by a positive number and is left out: only signs are tested.
updateFrustumPlanes(proj, view) ==
    Const(multiply(proj, view), LAMBDA m :
    LET sum(r) == << m[4][1] + m[r][1], m[4][2] + m[r][2], m[4][3] + m[r][3],
                     m[4][4] + m[r][4] >>
        difference(r) == << m[4][1] - m[r][1], m[4][2] - m[r][2], m[4][3] - m[r][3],
                            m[4][4] - m[r][4] >>
    IN  << sum(1), difference(1), sum(2), difference(2), sum(3), difference(3) >>)

\* vec4.dot( plane, [x, y, z, 1] )
dot(plane, corner) ==
    plane[1] * corner[1] + plane[2] * corner[2] + plane[3] * corner[3] + plane[4]

\* Renderer.isChunkInFrustum: false when the eight corners of the chunk
\* are all on the negative side of one plane.
isChunkInFrustum(planes, chunk) ==
    LET corners == {<<x, y, z>> : x \in {chunk.start[1], chunk.end[1]},
                                  y \in {chunk.start[2], chunk.end[2]},
                                  z \in {chunk.start[3], chunk.end[3]}}
    IN  ~\E i \in 1 .. 6 : \A corner \in corners : dot(planes[i], corner) < 0

\* px, py, pz: the chunk the player position lies in.
playerChunk(playerPos) ==
    << playerPos[1] \div chunkSize, playerPos[2] \div chunkSize, playerPos[3] \div chunkSize >>

\* dx*dx + dy*dy + dz*dz between two chunk coordinates
distance2(c, cam) ==
    (c[1] - cam[1]) * (c[1] - cam[1]) + (c[2] - cam[2]) * (c[2] - cam[2])
    + (c[3] - cam[3]) * (c[3] - cam[3])

\* The chunk coordinates the three loops reach past the `continue` and the
\* distance test, in loop order: x outermost, then y, then z.
inRange(cam) ==
    Const(axisChunks(cam[1] - loadDistance, cam[1] + loadDistance, SX), LAMBDA X :
    Const(axisChunks(cam[2] - loadDistance, cam[2] + loadDistance, SY), LAMBDA Y :
    Const(axisChunks(cam[3] - loadDistance, cam[3] + loadDistance, SZ), LAMBDA Z :
    LET visited == [i \in 1 .. Len(X) * Len(Y) * Len(Z) |->
                      << X[((i - 1) \div (Len(Y) * Len(Z))) + 1],
                         Y[(((i - 1) \div Len(Z)) % Len(Y)) + 1],
                         Z[((i - 1) % Len(Z)) + 1] >>]
        near(c) == /\ isInBounds(c[1] * chunkSize, c[2] * chunkSize, c[3] * chunkSize)
                   /\ distance2(c, cam) <= loadDistance * loadDistance
    IN  SelectSeq(visited, near))))

\* priority = distance - (viewAlignment > 0 ? 2 : 0), kept as the squared
\* distance and the bonus.
priority(cam, view, c) ==
    LET viewAlignment == (c[1] - cam[1]) * view[1] + (c[2] - cam[2]) * view[2]
                         + (c[3] - cam[3]) * view[3]
    IN  [d2 |-> distance2(c, cam), bonus |-> IF viewAlignment > 0 THEN 2 ELSE 0]

\* The load queue as pushed: the chunks in range the map has no entry for.
enqueue_loadedToo(map, cam, view) ==
    LET kept == inRange(cam)
        entry(c) == [x |-> c[1] * chunkSize, y |-> c[2] * chunkSize, z |-> c[3] * chunkSize,
                     d2 |-> priority(cam, view, c).d2, bonus |-> priority(cam, view, c).bonus]
    IN  [i \in 1 .. Len(kept) |-> entry(kept[i])]

enqueue(map, cam, view) ==
    LET missing(c) == getChunkKey(c[1] * chunkSize, c[2] * chunkSize, c[3] * chunkSize)
                         \notin DOMAIN map
        entry(c) == [x |-> c[1] * chunkSize, y |-> c[2] * chunkSize, z |-> c[3] * chunkSize,
                     d2 |-> priority(cam, view, c).d2, bonus |-> priority(cam, view, c).bonus]
    IN  Const(SelectSeq(inRange(cam), missing), LAMBDA kept :
              [i \in 1 .. Len(kept) |-> entry(kept[i])])

\* The unload loop: every chunk farther than unloadDistance leaves the map.
unload_keepsAll(map, cam) == map

unload_all(map, cam) == emptyMap

unload(map, cam) ==
    [k \in {j \in DOMAIN map : distance2(j, cam) <= unloadDistance * unloadDistance} |-> map[k]]

\* gl.deleteBuffer of the unload loop: the buffers of the chunks that left
deleteUnloaded(map, kept, gl) ==
    gl \ {map[k].buffer : k \in DOMAIN map \ DOMAIN kept}

\* Renderer.updateChunksAroundPlayer( playerPos ): the TypeError of reading
\* this.camPos[1] before any setCamera; otherwise the queue is rebuilt and
\* sorted, far chunks are unloaded and the head of the queue is created.
\* `pushed` and `sorted` are the queue before and after the sort.
updateChunksAroundPlayer(blocks, map, gl, queue, playerPos, alloc) ==
    IF camPos = <<>>
    THEN [ret |-> Throw("TypeError"), map |-> map, queue |-> queue, gl |-> gl,
          pushed |-> <<>>, sorted |-> <<>>]
    ELSE LET cam == playerChunk(playerPos)
         IN  Const(enqueue(map, cam, viewVector(camPos)), LAMBDA pushed :
             Const(sortQueue(pushed, Len(pushed)), LAMBDA sorted :
             Const(unload(map, cam), LAMBDA kept :
             Const(processChunkQueue(blocks, kept, deleteUnloaded(map, kept, gl),
                                     sorted, 0, alloc), LAMBDA out :
                 [ret |-> out.ret, map |-> out.map, queue |-> out.queue, gl |-> out.gl,
                  pushed |-> pushed, sorted |-> sorted]))))

\* Player.enableXray's replacement for a block: a JSON clone (functions are
\* dropped) marked transparent and xray.
jsonClone(block) == [k \in DOMAIN block \ {"texture"} |-> block[k]]

xrayBlock(block) ==
    Spread(jsonClone(block),
           [transparent |-> 1, opacity |-> 3, xray |-> 1, renderAlways |-> 1])

\* player.xrayCache.radius
radius == 16

\* Player.enableXray with the player in cell (px, py, pz): every cell
\* within the radius whose block has a non-zero id is cached as a JSON clone
\* and overwritten, through setBlock, by its x-ray version.
enableXray(blocks, px, py, pz) ==
    LET near == {c \in (px - radius .. px + radius) \X (py - radius .. py + radius)
                          \X (pz - radius .. pz + radius) :
                    isInBounds(c[1], c[2], c[3])}
        hit == {c \in near : LET block == getBlock(blocks, c[1], c[2], c[3]).val
                             IN  ~Falsy(block) /\ Truthy(block, "id")}
        originalBlock(c) == jsonClone(getBlock(blocks, c[1], c[2], c[3]).val)
    IN  [cache |-> [c \in hit |-> originalBlock(c)],
         blocks |-> [c \in Cells |->
                       IF c \in hit
                       THEN setBlock(blocks, FALSE, c[1], c[2], c[3],
                                     xrayBlock(originalBlock(c))).blocks[c]
                       ELSE blocks[c]]]

\* Player.disableXray: every cached block goes back through setBlock.
disableXray(blocks, cache) ==
    [c \in Cells |->
        IF c \in DOMAIN cache
        THEN setBlock(blocks, FALSE, c[1], c[2], c[3], cache[c]).blocks[c]
        ELSE blocks[c]]

\* ------------------------------------------------------------------------
\* Physics (physics.js)
\* ------------------------------------------------------------------------

\* The cells of the gravity loop whose block falls: gravity set, z > 0 and
\* nothing (null or undefined) in the cell below.
falling(blocks) ==
    {c \in Cells : /\ ~Falsy(blocks[c]) /\ Truthy(blocks[c], "gravity")
                   /\ c[3] > 0
                   /\ Falsy(blocks[<<c[1], c[2], c[3] - 1>>])}

\* The horizontal neighbours of a cell in the order the fluid step tries
\* them, those where nothing is stored.
emptyNeighbours(blocks, c) ==
    SelectSeq(<<<<c[1] - 1, c[2], c[3]>>, <<c[1] + 1, c[2], c[3]>>,
                <<c[1], c[2] - 1, c[3]>>, <<c[1], c[2] + 1, c[3]>>>>,
              LAMBDA n : n \in Cells /\ Falsy(blocks[n]))

\* The fluid loops from the i-th cell on; st holds the grid, the cells
\* filled in this step and the notifications sent.
RECURSIVE flow(_, _, _)
flow(st, hasRenderer, i) ==
    IF i > Len(cellOrder)
    THEN st
    ELSE LET c == cellOrder[i]
             block == st.blocks[c]
             targets == emptyNeighbours(st.blocks, c)
             put(n) == setBlock(st.blocks, hasRenderer, n[1], n[2], n[3], block)
         IN  IF Falsy(block) \/ ~Truthy(block, "fluid") \/ c \in st.new \/ targets = <<>>
             THEN flow(st, hasRenderer, i + 1)
             ELSE flow([blocks |-> [k \in Cells |->
                                      IF \E j \in 1 .. Len(targets) : targets[j] = k
                                      THEN put(k).blocks[k]
                                      ELSE st.blocks[k]],
                        new |-> st.new \cup {targets[j] : j \in 1 .. Len(targets)},
                        notify |-> st.notify
                                     \o [j \in 1 .. Len(targets) |-> put(targets[j]).notify[1]]],
                       hasRenderer, i)

\* Physics.simulate for one new step.  Gravity: the first falling block is
\* copied into the cell below and then replaced by setBlock( x, y, z, null ),
\* whose TypeError ends the step.  Fluids, every tenth step.
simulate(blocks, hasRenderer, fluids) ==
    IF falling(blocks) # {}
    THEN LET c == cellOrder[CHOOSE i \in 1 .. Len(cellOrder) :
                              /\ cellOrder[i] \in falling(blocks)
                              /\ \A j \in 1 .. i - 1 : cellOrder[j] \notin falling(blocks)]
             down == setBlock(blocks, hasRenderer, c[1], c[2], c[3] - 1, blocks[c])
             gone == setBlock(down.blocks, hasRenderer, c[1], c[2], c[3], Null)
         IN  [ret |-> gone.ret, blocks |-> gone.blocks, notify |-> down.notify \o gone.notify]
    ELSE IF ~fluids \/ \A c \in Cells : ~Falsy(blocks[c])
    THEN [ret |-> Return(Undefined), blocks |-> blocks, notify |-> <<>>]
    ELSE LET st == flow([blocks |-> blocks, new |-> {}, notify |-> <<>>], hasRenderer, 1)
         IN  [ret |-> Return(Undefined), blocks |-> st.blocks, notify |-> st.notify]

\* ------------------------------------------------------------------------
\* Inputs
\* ------------------------------------------------------------------------

\* Two cells of one column, and one coordinate out of bounds on each side
\* of each axis.
InCoords == {<<0, 0, 0>>, <<0, 0, SZ - 1>>}
OutCoords == {<<-1, 0, 0>>, <<SX, 0, 0>>, <<0, -1, 0>>, <<0, SY, 0>>,
              <<0, 0, -1>>, <<0, 0, SZ>>}
Coords == InCoords \cup OutCoords

\* An object with no id property.
noIdBlock == [spawnable |-> 1]

Malformed == {Null, Undefined, noIdBlock}

\* Block arguments: registry blocks (the empty one and an opaque one),
\* malformed values, and the x-ray replacement of DIRT.
InputBlocks == {BLOCK.AIR, BLOCK.DIRT, xrayBlock(BLOCK.DIRT)} \cup Malformed

\* Strings: 'c' (DIRT) at z = 0 and 'a' (AIR) above, with the first two
\* characters replaced; 118 is 'v' (ROCK, the highest id), 119 is 'w' (no
\* such id) and 96 decodes to id -1.
worldLength == SX * SY * SZ
baseString == [i \in 1 .. worldLength |-> IF (i - 1) % SZ = 0 THEN 99 ELSE 97]
withChars(c1, c2) == [baseString EXCEPT ![1] = c1, ![2] = c2]
FullStrings == {withChars(c1, c2) : c1 \in {97, 99, 118, 119, 96}, c2 \in {97, 99}}
WrongLengthStrings == {SubSeq(baseString, 1, worldLength - 1), Append(baseString, 99), <<>>}
InputStrings == FullStrings \cup WrongLengthStrings

\* A generation run that draws nothing: no tree, no cave.
noEnv ==
    [heights |-> <<>>, trees |-> {}, trunk |-> <<>>, caves |-> {}, deep |-> {}, cavity |-> {}]

\* The same finalHeight in every column.
level(sx, sy, h) == [c \in columnsOf(sx, sy) |-> h]

\* World sizes handed to the constructor and to generateWorld: a dimension
\* that is not positive, one above 254, worlds narrower than the platform,
\* and worlds too low for trees and caves.
SmallDims ==
    {<<0, 5, 2>>, <<5, -1, 2>>, <<5, 5, 0>>, <<255, 5, 2>>, <<5, 255, 2>>, <<254, 5, 2>>,
     <<4, 5, 2>>, <<5, 4, 2>>, <<1, 1, 1>>, <<5, 5, 1>>, <<5, 5, 3>>, <<5, 5, 4>>,
     <<6, 5, 3>>, <<5, 6, 4>>, <<SX, SY, SZ>>}

SmallWorlds ==
    {[dims |-> d, env |-> [noEnv EXCEPT !.heights = level(d[1], d[2], baseHeight(d[3]))]] :
        d \in SmallDims}

\* A 5x5x16 world: high enough for a tree on the centre column (the only
\* column addTree's bounds tests accept) and for one layer of caves.
TallDims == <<5, 5, 16>>

TallHeights ==
    {level(5, 5, h) : h \in finalHeights(16)}
        \cup {[level(5, 5, 8) EXCEPT ![c] = 9] : c \in {<<2, 2>>, <<0, 0>>, <<4, 4>>}}

\* What a run draws: nothing; a tree on the centre column, 5 to 7 high; a
\* cave cell; a cave cell with a cavity around it; a tree and a cavity.
tree(k) == [trees |-> {<<2, 2>>}, trunk |-> level(5, 5, k), caves |-> {}, deep |-> {}, cavity |-> {}]
cave(deep, cavity) ==
    [trees |-> {}, trunk |-> <<>>, caves |-> {<<0, 0, 5>>}, deep |-> deep, cavity |-> cavity]

Draws ==
    {[trees |-> {}, trunk |-> <<>>, caves |-> {}, deep |-> {}, cavity |-> {}],
     tree(5), tree(6), tree(7),
     cave({}, {}),
     cave({<<0, 0, 5>>}, {<<0, 1, 5>>, <<1, 0, 5>>, <<0, 0, 6>>}),
     [tree(7) EXCEPT !.caves = {<<0, 0, 5>>}, !.deep = {<<0, 0, 5>>}, !.cavity = {<<1, 1, 5>>}]}

TallWorlds ==
    {[dims |-> TallDims, env |-> [heights |-> h] @@ d] : h \in TallHeights, d \in Draws}

WorldInputs == SmallWorlds \cup TallWorlds

\* Edits explored together with physics steps and x-ray toggles: a block
\* with gravity, a fluid, AIR and malformed values on the top cell of one
\* column; a valid string, one with an unknown id and one too long.
EditBlocks == {BLOCK.SAND, BLOCK.WATER, BLOCK.AIR, Null, noIdBlock}
EditInputs == {<<0, 0, SZ - 1>>} \X EditBlocks
EditStrings == {baseString, withChars(119, 97), Append(baseString, 99)}

\* Whether gl.createBuffer hands out a buffer while the i-th chunk of a
\* call is built
Allocs == [1 .. maxChunksPerFrame -> BOOLEAN]
allSucceed == [i \in 1 .. maxChunksPerFrame |-> TRUE]
noneSucceeds == [i \in 1 .. maxChunksPerFrame |-> FALSE]
firstFails == [i \in 1 .. maxChunksPerFrame |-> i > 1]

\* Player positions: in the first chunk, and 13 chunks of 16 blocks away.
PlayerPositions == {<<0, 0, 0>>, <<13 * defaultChunkSize, 0, 0>>}

\* Streaming over small chunks: player positions in the first chunk, in
\* the last chunk of the world, and 13 chunks away on the x axis; camera
\* positions in the first chunk; pitch, yaw and roll.
StreamPositions == {<<0, 0, 0>>, <<1, 1, 0>>, <<SX - 1, SY - 1, 0>>, <<13 * smallChunkSize, 0, 0>>}
CameraPositions == {<<0, 0, 0>>, <<1, 1, 0>>}
Angles == {<<0, 0, 0>>}

\* ------------------------------------------------------------------------
\* Server and Client (network.js)
\* ------------------------------------------------------------------------

\* Strings are sequences of character codes.
CHAR ==
    [space |-> 32, amp |-> 38, semicolon |-> 59, lt |-> 60, gt |-> 62, backslash |-> 92,
     A |-> 65, Z |-> 90, B |-> 66, b |-> 98, g |-> 103, l |-> 108, o |-> 111, q |-> 113,
     t |-> 116, u |-> 117]

\* str.trim()
RECURSIVE trimStart(_)
trimStart(str) ==
    IF str # <<>> /\ Head(str) = CHAR.space THEN trimStart(Tail(str)) ELSE str

RECURSIVE trimEnd(_)
trimEnd(str) ==
    IF str # <<>> /\ str[Len(str)] = CHAR.space
    THEN trimEnd(SubSeq(str, 1, Len(str) - 1))
    ELSE str

trim(str) == trimEnd(trimStart(str))

\* str.replace( /c/g, by )
RECURSIVE replace(_, _, _)
replace(str, c, by) ==
    IF str = <<>> THEN <<>>
    ELSE (IF Head(str) = c THEN by ELSE <<Head(str)>>) \o replace(Tail(str), c, by)

\* str.toLowerCase()
toLowerCase(str) ==
    [i \in 1 .. Len(str) |->
        IF str[i] >= CHAR.A /\ str[i] <= CHAR.Z THEN str[i] + (CHAR.b - CHAR.B) ELSE str[i]]

\* Server.sanitiseInput( str )
sanitiseInput(str) ==
    replace(replace(replace(trim(str),
                            CHAR.lt, <<CHAR.amp, CHAR.l, CHAR.t, CHAR.semicolon>>),
                    CHAR.gt, <<CHAR.amp, CHAR.g, CHAR.t, CHAR.semicolon>>),
            CHAR.backslash, <<CHAR.amp, CHAR.q, CHAR.u, CHAR.o, CHAR.t, CHAR.semicolon>>)

\* The connections clients open, and the address each comes from: the
\* first two from one address.
Sockets == {"s1", "s2", "s3"}
getIp(socket) == IF socket = "s3" THEN "10.0.0.2" ELSE "10.0.0.1"

\* A socket.io socket.  handlers: onConnection hooked the event handlers;
\* the field _nickname exists once onNickname has set it.  A socket that is
\* not connected stands for a connection closed or not yet opened.
newSocket == [connected |-> TRUE, handlers |-> FALSE]
noSocket == [connected |-> FALSE, handlers |-> FALSE]

\* The cells of the server's world whose contents are followed: one far
\* from the spawn point at the top of the world, one on the spawn platform.
serverSize == 100
farCell == <<0, 0, serverSize - 1>>
nearCell == <<spawnX(serverSize), spawnY(serverSize), spawnZ(serverSize) + 1>>
NetCells == {farCell, nearCell}

\* new World( 100, 100, 100 ) as the server holds it (no renderer): AIR at
\* the top of the world and above the spawn platform.
serverWorld ==
    [sx |-> serverSize, sy |-> serverSize, sz |-> serverSize,
     spawnPoint |-> <<spawnX(serverSize), spawnY(serverSize), spawnZ(serverSize)>>,
     blocks |-> [c \in NetCells |-> validateBlock(BLOCK.AIR)],
     players |-> emptyMap]

\* new Server( socketio, slots ), setWorld, setOneUserPerIp.  The field
\* maxSlots is absent when slots is null or undefined.
newServer(slots, world, oneUserPerIp) ==
    LET server == [activeNicknames |-> {}, activeAddresses |-> {}, usedSlots |-> 0,
                   oneUserPerIp |-> oneUserPerIp, world |-> world]
    IN  IF slots = <<>> THEN server ELSE Spread(server, [maxSlots |-> slots[1]])

\* delete o[k] on an object kept as a function
delete(o, k) == [n \in DOMAIN o \ {k} |-> o[n]]

\* o[k] = v on an object kept as a function
put(o, k, v) == [n \in DOMAIN o \cup {k} |-> IF n = k THEN v ELSE o[n]]

\* onDisconnect leaving usedSlots as it is.
onDisconnect_keepsSlot(server, sockets, socket) ==
    [server |-> [server EXCEPT !.activeAddresses = @ \ {getIp(socket)}],
     sockets |-> sockets]

\* Server.onDisconnect( socket )
onDisconnect(server, sockets, socket) ==
    LET freed == [server EXCEPT !.usedSlots = @ - 1,
                                !.activeAddresses = @ \ {getIp(socket)}]
    IN  [server |-> IF Has(sockets[socket], "_nickname")
                    THEN [freed EXCEPT
                            !.activeNicknames = @ \ {sockets[socket]._nickname},
                            !.world.players = delete(@, sockets[socket]._nickname)]
                    ELSE freed,
         sockets |-> sockets]

\* Server.kick( socket, msg ): socket.disconnect() closes the socket and
\* emits "disconnect" to the handler onConnection hooked, if it hooked one.
kick(server, sockets, socket) ==
    LET closed == [sockets EXCEPT ![socket].connected = FALSE]
    IN  IF sockets[socket].handlers
        THEN onDisconnect(server, closed, socket)
        ELSE [server |-> server, sockets |-> closed]

\* Server.onConnection( socket )
onConnection(server, sockets, socket) ==
    IF Has(server, "maxSlots") /\ server.usedSlots = server.maxSlots
    THEN kick(server, sockets, socket)
    ELSE IF getIp(socket) \in server.activeAddresses /\ server.oneUserPerIp
    THEN kick(server, sockets, socket)
    ELSE [server |-> [server EXCEPT !.activeAddresses = @ \cup {getIp(socket)},
                                    !.usedSlots = @ + 1],
          sockets |-> [sockets EXCEPT ![socket].handlers = TRUE]]

\* The "world" message: the dimensions and, for each followed cell, the
\* character toNetworkString writes for it.
worldMessage(world) ==
    [sx |-> world.sx, sy |-> world.sy, sz |-> world.sz,
     blocks |-> [c \in DOMAIN world.blocks |-> 97 + validateBlock(world.blocks[c]).id]]

\* Server.onNickname( socket, data ): the server and sockets it leaves and
\* the "world" messages it sends to the socket.
onNickname(server, sockets, socket, data) ==
    IF Len(data.nickname) = 0 \/ Len(data.nickname) > 15
    THEN [server |-> server, sockets |-> sockets, world |-> <<>>]
    ELSE IF Has(sockets[socket], "_nickname")
    THEN [server |-> server, sockets |-> sockets, world |-> <<>>]
    ELSE Const(sanitiseInput(data.nickname), LAMBDA nickname :
         IF \E n \in server.activeNicknames : toLowerCase(n) = toLowerCase(nickname)
         THEN Spread(kick(server, sockets, socket), [world |-> <<>>])
         ELSE [server |-> [server EXCEPT
                             !.activeNicknames = @ \cup {data.nickname},
                             !.world.players = put(@, nickname, [blocks |-> 0])],
               sockets |-> [sockets EXCEPT ![socket] = Spread(@, [_nickname |-> nickname])],
               world |-> <<worldMessage(server.world)>>])

\* World.setBlock on a World object of any size that has no renderer; of
\* the grid only the followed cells are kept.
worldSetBlock(world, x, y, z, type) ==
    IF ~(x >= 0 /\ x < world.sx /\ y >= 0 /\ y < world.sy /\ z >= 0 /\ z < world.sz)
    THEN [ret |-> Return(FALSE), world |-> world]
    ELSE IF Falsy(type)
    THEN [ret |-> Throw("TypeError"), world |-> world]
    ELSE LET block == IF Truthy(type, "xray")
                      THEN Spread(type, [transparent |-> 1, opacity |-> 3])
                      ELSE validateBlock(type)
         IN  [ret |-> Return(TRUE),
              world |-> IF <<x, y, z>> \in DOMAIN world.blocks
                        THEN [world EXCEPT !.blocks[<<x, y, z>>] = Spread(block, [metadata |-> 0])]
                        ELSE world]

\* The block-spamming test: more than this many updates since the last check.
spamLimit == 5

\* The distance from the spawn point inside which onBlockUpdate refuses.
spawnGuard == 10

\* Server.onBlockUpdate( socket, data ).  elapsed: more than 100 ms have
\* passed since the player's lastBlockCheck.  emit: the "setblock"
\* messages sent to every connected socket.
onBlockUpdate(server, sockets, socket, data, elapsed) ==
    LET world == server.world
        refused == [server |-> server, sockets |-> sockets, emit |-> <<>>]
    IN  IF ~Has(data, "x") \/ ~Has(data, "y") \/ ~Has(data, "z") \/ ~Has(data, "mat")
        THEN refused
        ELSE IF data.x < 0 \/ data.y < 0 \/ data.z < 0
                \/ data.x >= world.sx \/ data.y >= world.sy \/ data.z >= world.sz
        THEN refused
        ELSE IF (data.x - world.spawnPoint[1]) * (data.x - world.spawnPoint[1])
                + (data.y - world.spawnPoint[2]) * (data.y - world.spawnPoint[2])
                + (data.z - world.spawnPoint[3]) * (data.z - world.spawnPoint[3])
                < spawnGuard * spawnGuard
        THEN refused
        ELSE Const(fromId(data.mat), LAMBDA material :
             IF Falsy(material) \/ (~Truthy(material, "spawnable") /\ data.mat # 0)
             THEN refused
             ELSE IF ~Has(sockets[socket], "_nickname")
             THEN refused
             ELSE Const(worldSetBlock(world, data.x, data.y, data.z, material), LAMBDA set :
                  IF Threw(set.ret)
                  THEN refused
                  ELSE IF sockets[socket]._nickname \notin DOMAIN set.world.players
                  THEN \* pl is undefined: pl.blocks++ throws into the catch
                       [server |-> [server EXCEPT !.world = set.world],
                        sockets |-> sockets, emit |-> <<>>]
                  ELSE Const([server EXCEPT !.world =
                                 [set.world EXCEPT !.players[sockets[socket]._nickname].blocks = @ + 1]],
                             LAMBDA counted :
                       IF elapsed /\ counted.world.players[sockets[socket]._nickname].blocks > spamLimit
                       THEN Spread(kick(counted, sockets, socket), [emit |-> <<>>])
                       ELSE [server |-> IF elapsed
                                        THEN [counted EXCEPT !.world.players[sockets[socket]._nickname].blocks = 0]
                                        ELSE counted,
                             sockets |-> sockets,
                             emit |-> <<[x |-> data.x, y |-> data.y, z |-> data.z,
                                         mat |-> data.mat]>>])))

\* A Client: the field world exists once onWorld has built it.
newClient == [kicked |-> FALSE]

\* Client.onWorld( data ): new World of the size sent, then
\* createFromString decodes each cell from its character.
onWorld(client, data) ==
    Spread(client, [world |-> [sx |-> data.sx, sy |-> data.sy, sz |-> data.sz,
                               blocks |-> [c \in DOMAIN data.blocks |->
                                              fromId(minus(data.blocks[c], 97))]]])

\* Client.onBlockUpdate( data ): this.world.blocks[...] throws while the
\* client has no world.
clientOnBlockUpdate(client, data) ==
    IF ~Has(client, "world")
    THEN client
    ELSE [client EXCEPT !.world =
             worldSetBlock(client.world, data.x, data.y, data.z, fromId(data.mat)).world]

\* ------------------------------------------------------------------------
\* State
\* ------------------------------------------------------------------------

VARIABLES
    blocks,          \* world.blocks
    lightmap,        \* world.lightmap
    renderer,        \* world.renderer is set
    eventQueue,      \* renderer.eventQueue
    chunkMap,        \* renderer.chunkMap
    chunkLoadQueue,  \* renderer.chunkLoadQueue
    xrayCache,       \* player.xrayCache.blocks
    xrayActive,      \* player.xrayCache.active
    chunks,          \* renderer.chunks
    glBuffers,       \* the buffers gl.createBuffer made and gl.deleteBuffer has not deleted
    server,          \* the Server object, with its world
    sockets,         \* the server's socket of each connection
    clients,         \* the Client object of each connection
    last             \* the call recorded last, with its arguments and outcome

vars == <<blocks, lightmap, renderer, chunkSize, camPos, viewMatrix, projMatrix, eventQueue,
          chunkMap, chunkLoadQueue, xrayCache, xrayActive, chunks, glBuffers, server, sockets, clients,
          last>>

\* connectToServer( uri, slots ): the server with its world and the
\* one-user-per-IP rule set, no connection made yet.
connectToServer(slots, oneUserPerIp) ==
    /\ server = newServer(slots, serverWorld, oneUserPerIp)
    /\ sockets = [socket \in Sockets |-> noSocket]
    /\ clients = [socket \in Sockets |-> newClient]

\* new World( sx, sy, sz ): terrain, spawn platform, lightmap.
Init ==
    /\ \E heights \in [Columns -> finalHeights(SZ)] :
          \E world \in {newWorld(SX, SY, SZ, [noEnv EXCEPT !.heights = heights]).val} :
              /\ blocks = [c \in Cells |-> world.blocks[c]]
              /\ lightmap = world.lightmap
    /\ renderer = FALSE
    /\ chunkSize = defaultChunkSize
    /\ camPos = <<>>
    /\ viewMatrix = [ang |-> <<0, 0, 0>>, pos |-> <<0, 0, 0>>]
    /\ projMatrix = [aspect |-> squareCanvas]
    /\ eventQueue = <<>>
    /\ chunkMap = emptyMap
    /\ chunkLoadQueue = <<>>
    /\ xrayCache = emptyMap
    /\ xrayActive = FALSE
    /\ chunks = <<>>
    /\ glBuffers = {}
    /\ connectToServer(<<>>, TRUE)
    /\ last = [op |-> "new World"]

\* world.getBlock( x, y, z )
GetBlock(pos) ==
    /\ last' = [op |-> "getBlock", pos |-> pos,
                ret |-> getBlock(blocks, pos[1], pos[2], pos[3])]
    /\ UNCHANGED <<server, sockets, clients, xrayActive, blocks, lightmap, renderer, eventQueue, chunkMap, chunkLoadQueue, xrayCache, chunkSize, camPos, viewMatrix, projMatrix, chunks, glBuffers>>

\* world.setBlock( x, y, z, type )
SetBlock(pos, type) ==
    LET out == setBlock(blocks, renderer, pos[1], pos[2], pos[3], type)
    IN  /\ Len(eventQueue) + Len(out.notify) <= MaxEvents
        /\ blocks' = out.blocks
        /\ eventQueue' = eventQueue \o out.notify
        /\ last' = [op |-> "setBlock", pos |-> pos, type |-> type, ret |-> out.ret]
        /\ UNCHANGED <<server, sockets, clients, xrayActive, lightmap, renderer, chunkMap, chunkLoadQueue, xrayCache, chunkSize, camPos, viewMatrix, projMatrix, chunks, glBuffers>>

\* world.updateLightingAt( x, y, z ): returns nothing.  last keeps the
\* grid and the lightmap the call found.
UpdateLightingAt(pos) ==
    /\ lightmap' = updateLightingAt(blocks, lightmap, pos[1], pos[2], pos[3])
    /\ last' = [op |-> "updateLightingAt", pos |-> pos, grid |-> blocks, light |-> lightmap]
    /\ UNCHANGED <<server, sockets, clients, xrayActive, blocks, renderer, eventQueue, chunkMap, chunkLoadQueue, xrayCache,
                   chunkSize, camPos, viewMatrix, projMatrix, chunks, glBuffers>>

\* world.createFromString( str )
CreateFromString(str) ==
    LET out == createFromString(blocks, str)
    IN  /\ blocks' = out.blocks
        /\ last' = [op |-> "createFromString", str |-> str, ret |-> out.ret]
        /\ UNCHANGED <<server, sockets, clients, xrayActive, lightmap, renderer, eventQueue, chunkMap, chunkLoadQueue, xrayCache, chunkSize, camPos, viewMatrix, projMatrix, chunks, glBuffers>>

\* world.toNetworkString()
ToNetworkString ==
    /\ last' = [op |-> "toNetworkString", ret |-> Return(toNetworkString(blocks))]
    /\ UNCHANGED <<server, sockets, clients, xrayActive, blocks, lightmap, renderer, eventQueue, chunkMap, chunkLoadQueue, xrayCache, chunkSize, camPos, viewMatrix, projMatrix, chunks, glBuffers>>

\* renderer.setWorld( world, chunkSize )
\* The chunk list and the chunk map are emptied; no buffer is deleted.  A
\* run sets the world only while at most MaxLeaked buffers are live.
RendererSetWorld(size) ==
    /\ Cardinality(glBuffers) <= MaxLeaked
    /\ renderer' = TRUE
    /\ chunkSize' = size
    /\ chunkMap' = emptyMap
    /\ chunks' = <<>>
    /\ last' = [op |-> "setWorld"]
    /\ UNCHANGED <<server, sockets, clients, xrayActive, blocks, lightmap, camPos, viewMatrix, projMatrix, eventQueue, chunkLoadQueue,
                   xrayCache, glBuffers>>

\* renderer.setCamera( pos, ang ): returns nothing and is not recorded in
\* last.
SetCamera(pos, ang) ==
    /\ camPos' = pos
    /\ viewMatrix' = [ang |-> ang, pos |-> pos]
    /\ UNCHANGED <<server, sockets, clients, xrayActive, blocks, lightmap, renderer, chunkSize, projMatrix, eventQueue, chunkMap,
                   chunkLoadQueue, xrayCache, chunks, glBuffers, last>>

\* renderer.updateChunksAroundPlayer( playerPos ).  last keeps what the
\* pass saw and did: the camera chunk, the angles of the latest setCamera,
\* the map before the pass, the priority of every chunk in range, the queue
\* as pushed, and the entries shifted off the sorted queue, in that order.
UpdateChunksAroundPlayer(playerPos, alloc) ==
    \E out \in {updateChunksAroundPlayer(blocks, chunkMap, glBuffers, chunkLoadQueue,
                                         playerPos, alloc)},
       cam \in {playerChunk(playerPos)} :
    \E near \in {inRange(cam)} :
        /\ renderer
        /\ chunkMap' = out.map
        /\ chunkLoadQueue' = out.queue
        /\ glBuffers' = out.gl
        /\ last' = [op |-> "updateChunksAroundPlayer", cam |-> cam, ret |-> out.ret,
                    alloc |-> alloc,
                    ran |-> camPos # <<>>,
                    ang |-> viewMatrix.ang,
                    before |-> chunkMap,
                    priority |-> IF camPos = <<>> THEN <<>>
                                 ELSE [i \in 1 .. Len(near) |->
                                         [c |-> near[i],
                                          p |-> priority(cam, viewVector(camPos), near[i])]],
                    pushed |-> out.pushed,
                    made |-> SubSeq(out.sorted, 1, Len(out.sorted) - Len(out.queue))]
        /\ UNCHANGED <<server, sockets, clients, xrayActive, blocks, lightmap, renderer, chunkSize, camPos, viewMatrix, projMatrix,
                       eventQueue, xrayCache, chunks>>

\* renderer.updateViewport() after the canvas changed size: every chunk of
\* the list and of the map is marked dirty, then buildChunks( 10 ) walks
\* the list.
UpdateViewport(alloc) ==
    \E out \in {updateViewport(blocks, chunks, glBuffers, alloc)} :
        /\ renderer
        /\ chunkMap' = [k \in DOMAIN chunkMap |-> markDirty(chunkMap[k])]
        /\ chunks' = out.chunks
        /\ glBuffers' = out.gl
        /\ last' = [op |-> "updateViewport", ret |-> out.ret, logged |-> out.logged]
        /\ UNCHANGED <<server, sockets, clients, xrayActive, blocks, lightmap, renderer, eventQueue, chunkLoadQueue, xrayCache,
                       chunkSize, camPos, viewMatrix, projMatrix>>

\* The matrix renderer.viewMatrix holds
currentView ==
    IF camPos = <<>> THEN identity ELSE setCamera(viewMatrix.pos, viewMatrix.ang)

\* The streaming pass of draw: none before the first setCamera
drawPass(map, gl, alloc) ==
    IF camPos = <<>>
    THEN [ret |-> Return(Undefined), map |-> map, queue |-> chunkLoadQueue, gl |-> gl,
          pushed |-> <<>>, sorted |-> <<>>]
    ELSE updateChunksAroundPlayer(blocks, map, gl, chunkLoadQueue, camPos, alloc)

\* The chunks of the map draw hands to drawBuffer
drawn(planes, pass) ==
    IF Threw(pass.ret)
    THEN {}
    ELSE {k \in DOMAIN pass.map :
             pass.map[k].buffer # Null /\ isChunkInFrustum(planes, pass.map[k])}

\* renderer.draw(): fpsStats.frames++ (its parity is kept in last),
\* updateViewport (`resized`: the canvas changed size, to the ratio
\* `aspect`), updateFrustumPlanes, a streaming pass around camPos, then
\* every chunk that holds a buffer and passes the frustum test is drawn.
\* What the pass throws leaves draw.
Draw(resized, aspect, alloc) ==
    \E vp \in {IF resized
                THEN updateViewport(blocks, chunks, glBuffers, alloc)
                ELSE [ret |-> Return(Undefined), chunks |-> chunks, gl |-> glBuffers,
                      logged |-> FALSE]},
       dirtied \in {IF resized
                    THEN [k \in DOMAIN chunkMap |-> markDirty(chunkMap[k])]
                    ELSE chunkMap},
       planes \in {updateFrustumPlanes(perspectiveNO(aspect), currentView)} :
    \E pass \in {drawPass(dirtied, vp.gl, alloc)} :
        /\ renderer
        /\ projMatrix' = [aspect |-> aspect]
        /\ chunks' = vp.chunks
        /\ chunkMap' = pass.map
        /\ chunkLoadQueue' = pass.queue
        /\ glBuffers' = pass.gl
        /\ last' = [op |-> "draw", ret |-> pass.ret, resized |-> resized,
                    frames |-> IF Has(last, "frames") THEN 1 - last.frames ELSE 1,
                    drawn |-> drawn(planes, pass)]
        /\ UNCHANGED <<server, sockets, clients, xrayActive, blocks, lightmap, renderer, chunkSize, camPos, viewMatrix,
                       eventQueue, xrayCache>>

\* One iteration of gameLoop with the player's eye at eyePos and the canvas
\* at its size: setCamera( eyePos, angles ), updateChunksAroundPlayer(
\* eyePos ), draw(); an error thrown on the way is caught and logged, and
\* what follows it in the iteration is skipped.  The pass and the draw run
\* with the camera the iteration has just set.  last keeps the queue
\* entries each of the two passes shifted and created.  X-ray is off:
\* player.update() touches no block.
GameLoop(eyePos, angles, alloc) ==
    \E b \in {blocks}, map \in {chunkMap}, gl \in {glBuffers}, queue \in {chunkLoadQueue} :
        /\ renderer
        /\ ~xrayActive
        /\ camPos' = eyePos
        /\ viewMatrix' = [ang |-> angles, pos |-> eyePos]
        /\ UNCHANGED <<server, sockets, clients, xrayActive, blocks, lightmap, renderer, chunkSize, projMatrix, eventQueue,
                       xrayCache, chunks>>
        /\ \E first \in {(updateChunksAroundPlayer(b, map, gl, queue, eyePos, alloc))'} :
           \E second \in {IF Threw(first.ret)
                          THEN [first EXCEPT !.sorted = first.queue]
                          ELSE (updateChunksAroundPlayer(b, first.map, first.gl, first.queue,
                                                         eyePos, allSucceed))'},
              planes \in {(updateFrustumPlanes(perspectiveNO(projMatrix.aspect),
                                               currentView))'} :
              /\ chunkMap' = second.map
              /\ chunkLoadQueue' = second.queue
              /\ glBuffers' = second.gl
              /\ last' = [op |-> "gameLoop",
                          caught |-> Threw(second.ret),
                          first |-> SubSeq(first.sorted, 1,
                                           Len(first.sorted) - Len(first.queue)),
                          second |-> SubSeq(second.sorted, 1,
                                            Len(second.sorted) - Len(second.queue)),
                          drawn |-> drawn(planes, second)]

\* renderer.cleanup() on page unload: the buffers of the chunks of the list
\* are deleted and the list is dropped (this.chunks = null, which nothing
\* reads afterwards); the chunk map is left as it is.
Cleanup ==
    /\ renderer
    /\ glBuffers' = glBuffers \ {chunks[i].buffer : i \in DOMAIN chunks}
    /\ chunks' = <<>>
    /\ last' = [op |-> "cleanup"]
    /\ UNCHANGED <<server, sockets, clients, xrayActive, blocks, lightmap, renderer, chunkSize, camPos, viewMatrix, projMatrix,
                   eventQueue, chunkMap, chunkLoadQueue, xrayCache>>

\* renderer.processEvents(): shifts every event and calls buildChunks( 1 )
\* for each.
ProcessEvents(alloc) ==
    \E out \in {processEvents(blocks, chunks, glBuffers, Len(eventQueue), alloc)} :
        /\ renderer
        /\ eventQueue' = <<>>
        /\ chunks' = out.chunks
        /\ glBuffers' = out.gl
        /\ last' = [op |-> "processEvents"]
        /\ UNCHANGED <<server, sockets, clients, xrayActive, blocks, lightmap, renderer, chunkMap, chunkLoadQueue, xrayCache,
                       chunkSize, camPos, viewMatrix, projMatrix>>

\* renderer.buildChunk( renderer.chunks[i] )
BuildChunk(i, alloc) ==
    \E out \in {buildChunk(blocks, chunks[i], glBuffers, allocAt(alloc, 1))} :
        /\ renderer
        /\ chunks' = [chunks EXCEPT ![i] = out.chunk]
        /\ glBuffers' = out.gl
        /\ last' = [op |-> "buildChunk", i |-> i, alloc |-> alloc, ret |-> out.ret,
                    logged |-> FALSE]
        /\ UNCHANGED <<server, sockets, clients, xrayActive, blocks, lightmap, renderer, eventQueue, chunkMap, chunkLoadQueue,
                       xrayCache, chunkSize, camPos, viewMatrix, projMatrix>>

\* renderer.buildChunks( count )
BuildChunks(count, alloc) ==
    \E out \in {buildChunks(blocks, chunks, glBuffers, count, alloc)} :
        /\ renderer
        /\ chunks' = out.chunks
        /\ glBuffers' = out.gl
        /\ last' = [op |-> "buildChunks", count |-> count, alloc |-> alloc, ret |-> out.ret,
                    logged |-> out.logged]
        /\ UNCHANGED <<server, sockets, clients, xrayActive, blocks, lightmap, renderer, eventQueue, chunkMap, chunkLoadQueue,
                       xrayCache, chunkSize, camPos, viewMatrix, projMatrix>>

\* renderer.buildChunksAroundPlayer( playerPos, count )
BuildChunksAroundPlayer(playerPos, count, alloc) ==
    \E out \in {buildChunksAroundPlayer(blocks, chunks, glBuffers, playerPos, count, 0, alloc)} :
        /\ renderer
        /\ chunks' = out.chunks
        /\ glBuffers' = out.gl
        /\ last' = [op |-> "buildChunksAroundPlayer", count |-> count, alloc |-> alloc,
                    ret |-> out.ret, logged |-> out.logged]
        /\ UNCHANGED <<server, sockets, clients, xrayActive, blocks, lightmap, renderer, eventQueue, chunkMap, chunkLoadQueue,
                       xrayCache, chunkSize, camPos, viewMatrix, projMatrix>>

\* physics.simulate()
Simulate(fluids) ==
    \E out \in {simulate(blocks, renderer, fluids)} :
        /\ Len(eventQueue) + Len(out.notify) <= MaxEvents
        /\ blocks' = out.blocks
        /\ eventQueue' = eventQueue \o out.notify
        /\ last' = [op |-> "simulate", ret |-> out.ret]
        /\ UNCHANGED <<server, sockets, clients, xrayActive, lightmap, renderer, chunkMap, chunkLoadQueue, xrayCache, chunkSize, camPos, viewMatrix, projMatrix, chunks, glBuffers>>

\* player.enableXray() in a world no renderer is attached to
EnableXray(pos) ==
    LET out == enableXray(blocks, pos[1], pos[2], pos[3])
    IN  /\ ~renderer
        /\ blocks' = out.blocks
        /\ xrayCache' = out.cache
        /\ last' = [op |-> "enableXray"]
        /\ UNCHANGED <<server, sockets, clients, xrayActive, lightmap, renderer, eventQueue, chunkMap, chunkLoadQueue, chunkSize, camPos, viewMatrix, projMatrix, chunks, glBuffers>>

\* player.disableXray() in a world no renderer is attached to
DisableXray ==
    /\ ~renderer
    /\ blocks' = disableXray(blocks, xrayCache)
    /\ xrayCache' = emptyMap
    /\ last' = [op |-> "disableXray"]
    /\ UNCHANGED <<server, sockets, clients, xrayActive, lightmap, renderer, eventQueue, chunkMap, chunkLoadQueue, chunkSize, camPos, viewMatrix, projMatrix, chunks, glBuffers>>

\* player.toggleXray(), which the F1 key handler repeats, in a world no
\* renderer is attached to.  last keeps the grid the call found.
ToggleXray(pos) ==
    /\ ~renderer
    /\ xrayActive' = ~xrayActive
    /\ \E out \in {IF ~xrayActive
                   THEN enableXray(blocks, pos[1], pos[2], pos[3])
                   ELSE [cache |-> emptyMap, blocks |-> disableXray(blocks, xrayCache)]} :
          /\ blocks' = out.blocks
          /\ xrayCache' = out.cache
    /\ last' = [op |-> "toggleXray", active |-> ~xrayActive, grid |-> blocks]
    /\ UNCHANGED <<server, sockets, clients, lightmap, renderer, eventQueue, chunkMap, chunkLoadQueue,
                   chunkSize, camPos, viewMatrix, projMatrix, chunks, glBuffers>>

\* player.update() with the player standing in cell pos, as far as the
\* world is concerned: enableXray() again while x-ray is active.  Nothing
\* is recorded in last.
PlayerUpdate(pos) ==
    /\ ~renderer
    /\ \E out \in {IF xrayActive
                   THEN enableXray(blocks, pos[1], pos[2], pos[3])
                   ELSE [cache |-> xrayCache, blocks |-> blocks]} :
          /\ blocks' = out.blocks
          /\ xrayCache' = out.cache
    /\ UNCHANGED <<server, sockets, clients, xrayActive, lightmap, renderer, eventQueue, chunkMap,
                   chunkLoadQueue, chunkSize, camPos, viewMatrix, projMatrix, chunks, glBuffers, last>>

\* new World( sx, sy, sz ) and World.generateWorld( sx, sy, sz ): another
\* World object; the world the renderer holds is not touched.  After the
\* first creation a run repeats creations of the same size and seed (the
\* same noise: heights and cave cells), with fresh random draws.
sameSeed(w) ==
    IF Has(last, "dims")
    THEN /\ last.dims = w.dims
         /\ last.env.heights = w.env.heights
         /\ last.env.caves = w.env.caves
         /\ last.env.deep = w.env.deep
    ELSE TRUE

NewWorld(w) ==
    /\ sameSeed(w)
    /\ last' = [op |-> "World", dims |-> w.dims, env |-> w.env,
                ret |-> newWorld(w.dims[1], w.dims[2], w.dims[3], w.env)]
    /\ UNCHANGED <<server, sockets, clients, xrayActive, blocks, lightmap, renderer, eventQueue, chunkMap, chunkLoadQueue, xrayCache, chunkSize, camPos, viewMatrix, projMatrix, chunks, glBuffers>>

GenerateWorld(w) ==
    /\ sameSeed(w)
    /\ last' = [op |-> "generateWorld", dims |-> w.dims, env |-> w.env,
                ret |-> generateWorld(w.dims[1], w.dims[2], w.dims[3], w.env)]
    /\ UNCHANGED <<server, sockets, clients, xrayActive, blocks, lightmap, renderer, eventQueue, chunkMap, chunkLoadQueue, xrayCache, chunkSize, camPos, viewMatrix, projMatrix, chunks, glBuffers>>

\* The arguments setBlock is called with: every block argument on the two
\* cells, a well-formed and a malformed one on the coordinates outside.
SetBlockInputs == (InCoords \X InputBlocks) \cup (OutCoords \X {BLOCK.DIRT, Null})

\* World edits and the renderer that listens to them.
Next ==
    \/ \E in \in SetBlockInputs : SetBlock(in[1], in[2])
    \/ RendererSetWorld(defaultChunkSize)
    \/ SetCamera(<<0, 0, 0>>, <<0, 0, 0>>)
    \/ \E playerPos \in PlayerPositions, alloc \in {allSucceed, noneSucceeds} :
          UpdateChunksAroundPlayer(playerPos, alloc)
    \/ UpdateViewport(allSucceed)
    \/ ProcessEvents(allSucceed)

Spec == Init /\ [][Next]_vars

\* World reads, edits and whole-world transfer with no renderer attached
\* (the server side).
NextNet ==
    \/ \E pos \in Coords : GetBlock(pos)
    \/ \E in \in SetBlockInputs : SetBlock(in[1], in[2])
    \/ \E str \in InputStrings : CreateFromString(str)
    \/ ToNetworkString

SpecNet == Init /\ [][NextNet]_vars

\* World creation
NextCreate ==
    \/ \E w \in WorldInputs : NewWorld(w)
    \/ \E w \in WorldInputs : GenerateWorld(w)

SpecCreate == Init /\ [][NextCreate]_vars

\* World edits: blocks set, worlds received, physics steps, x-ray toggles
NextEdit ==
    \/ \E in \in EditInputs : SetBlock(in[1], in[2])
    \/ \E str \in EditStrings : CreateFromString(str)
    \/ \E fluids \in BOOLEAN : Simulate(fluids)
    \/ EnableXray(<<0, 0, 0>>)
    \/ DisableXray

SpecEdit == Init /\ [][NextEdit]_vars

\* The game sets the world once, at start.
StartGame == ~renderer /\ RendererSetWorld(smallChunkSize)

\* Streaming passes of a camera that stays where it is, with allocations
\* that may fail
NextPass ==
    \/ StartGame
    \/ SetCamera(<<0, 0, 0>>, <<0, 0, 0>>)
    \/ \E alloc \in Allocs : UpdateChunksAroundPlayer(<<0, 0, 0>>, alloc)

SpecPass == Init /\ [][NextPass]_vars

\* The game loop runs on every animation frame: the world is set, the
\* camera is set, and the passes keep coming, whether or not they throw.
SpecPassFair ==
    /\ SpecPass
    /\ WF_vars(StartGame)
    /\ WF_vars(SetCamera(<<0, 0, 0>>, <<0, 0, 0>>))
    /\ WF_vars(\E alloc \in Allocs : UpdateChunksAroundPlayer(<<0, 0, 0>>, alloc))

\* Frames: the camera is set, the scene is drawn; now and then the canvas
\* changes size.
DrawAngles == {<<0, 0, 0>>, <<0, 22, 0>>}

NextDraw ==
    \/ StartGame
    \/ \E pos \in CameraPositions, ang \in DrawAngles : SetCamera(pos, ang)
    \/ Draw(FALSE, projMatrix.aspect, allSucceed)
    \/ \E aspect \in {squareCanvas, wideCanvas} : Draw(TRUE, aspect, allSucceed)

SpecDraw == Init /\ [][NextDraw]_vars

\* requestAnimationFrame keeps the frames coming once the game has started.
SpecDrawFair ==
    /\ SpecDraw
    /\ WF_vars(StartGame)
    /\ WF_vars(Draw(FALSE, projMatrix.aspect, allSucceed))

\* The game loop after the game has started
NextLoop ==
    \/ StartGame
    \/ \E eyePos \in CameraPositions, angles \in DrawAngles, alloc \in {allSucceed, firstFails} :
          GameLoop(eyePos, angles, alloc)

SpecLoop == Init /\ [][NextLoop]_vars

\* Streaming until the page is unloaded: the animation frame is cancelled
\* and nothing runs after cleanup.
pageLoaded == last.op # "cleanup"

NextUnload ==
    \/ pageLoaded /\ RendererSetWorld(smallChunkSize)
    \/ pageLoaded /\ SetCamera(<<0, 0, 0>>, <<0, 0, 0>>)
    \/ pageLoaded /\ \E alloc \in {allSucceed, firstFails} :
                         UpdateChunksAroundPlayer(<<0, 0, 0>>, alloc)
    \/ pageLoaded /\ Cleanup

SpecUnload == Init /\ [][NextUnload]_vars

\* Lighting: an opaque block that lights itself (setBlock stores any object
\* with an id), set and lit in the middle of the world, on its border and
\* outside it.
lamp == [id |-> 22, transparent |-> 0, selflit |-> 1]
LightCoords == {<<1, 1, 0>>, <<1, 1, SZ - 1>>, <<0, 0, SZ - 1>>}
LightInputs == LightCoords \X {BLOCK.AIR, BLOCK.DIRT, lamp}

NextLight ==
    \/ \E in \in LightInputs : SetBlock(in[1], in[2])
    \/ \E pos \in LightCoords \cup OutCoords : UpdateLightingAt(pos)

SpecLight == Init /\ [][NextLight]_vars

\* Chunk streaming over a world of several chunks
NextStream ==
    \/ RendererSetWorld(smallChunkSize)
    \/ \E pos \in CameraPositions, ang \in Angles : SetCamera(pos, ang)
    \/ \E playerPos \in StreamPositions : UpdateChunksAroundPlayer(playerPos, allSucceed)

SpecStream == Init /\ [][NextStream]_vars

\* The chunk list of a renderer: the world cut into chunks of `size`, in
\* x, y, z order, every chunk dirty and without a buffer.
chunkList(size) ==
    LET starts(n) == [i \in 1 .. (n + size - 1) \div size |-> (i - 1) * size]
        xs == starts(SX)
        ys == starts(SY)
        zs == starts(SZ)
        at(i) == << xs[((i - 1) \div (Len(ys) * Len(zs))) + 1],
                    ys[(((i - 1) \div Len(zs)) % Len(ys)) + 1],
                    zs[((i - 1) % Len(zs)) + 1] >>
    IN  [i \in 1 .. Len(xs) * Len(ys) * Len(zs) |->
           [start |-> at(i),
            end |-> << min(SX, at(i)[1] + size), min(SY, at(i)[2] + size),
                       min(SZ, at(i)[3] + size) >>,
            dirty |-> TRUE,
            buffer |-> Null]]

\* A renderer that holds its world as a chunk list: four chunks, the last
\* of them the one column in the far corner.
listChunkSize == SX - 1

InitBuild ==
    /\ \E heights \in [Columns -> finalHeights(SZ)] :
          \E world \in {newWorld(SX, SY, SZ, [noEnv EXCEPT !.heights = heights]).val} :
              /\ blocks = [c \in Cells |-> world.blocks[c]]
              /\ lightmap = world.lightmap
    /\ renderer = TRUE
    /\ chunkSize = listChunkSize
    /\ camPos = <<>>
    /\ viewMatrix = [ang |-> <<0, 0, 0>>, pos |-> <<0, 0, 0>>]
    /\ projMatrix = [aspect |-> squareCanvas]
    /\ eventQueue = <<>>
    /\ chunkMap = emptyMap
    /\ chunkLoadQueue = <<>>
    /\ xrayCache = emptyMap
    /\ xrayActive = FALSE
    /\ chunks = chunkList(listChunkSize)
    /\ glBuffers = {}
    /\ connectToServer(<<>>, TRUE)
    /\ last = [op |-> "new World"]

\* The one block of the last chunk of the list is taken away and put back
BuildInputs == {<<SX - 1, SY - 1, 0>>} \X {BLOCK.AIR, BLOCK.DIRT}

\* Mesh builds over the chunk list, between edits of the world
NextBuild ==
    \/ \E in \in BuildInputs : SetBlock(in[1], in[2])
    \/ \E alloc \in {allSucceed, firstFails} : BuildChunk(Len(chunks), alloc)
    \/ \E count \in {1, 10}, alloc \in {allSucceed, firstFails} : BuildChunks(count, alloc)
    \/ \E alloc \in {allSucceed, firstFails} :
          BuildChunksAroundPlayer(<<SX - 1, SY - 1, 0>>, 1, alloc)
    \/ UpdateViewport(allSucceed)
    \/ ProcessEvents(allSucceed)

SpecBuild == InitBuild /\ [][NextBuild]_vars

\* ------------------------------------------------------------------------
\* Server: connections, nicknames, block updates
\* ------------------------------------------------------------------------

\* Everything but the server, its sockets and the clients
gameVars ==
    <<blocks, lightmap, renderer, chunkSize, camPos, viewMatrix, projMatrix, eventQueue,
      chunkMap, chunkLoadQueue, xrayCache, xrayActive, chunks, glBuffers>>

\* Client.onKick for each client whose socket the server closed with a kick
onKick(before, after) ==
    [socket \in Sockets |->
        IF before[socket].connected /\ ~after[socket].connected
        THEN [clients[socket] EXCEPT !.kicked = TRUE]
        ELSE clients[socket]]

\* A client connects: io.sockets "connection"
Connection(socket) ==
    /\ ~sockets[socket].connected
    /\ \E opened \in {[sockets EXCEPT ![socket] = newSocket]} :
       \E out \in {onConnection(server, opened, socket)} :
          /\ server' = out.server
          /\ sockets' = out.sockets
          /\ clients' = [clients EXCEPT ![socket] =
                            [newClient EXCEPT !.kicked = ~out.sockets[socket].connected]]
    /\ last' = [op |-> "onConnection", socket |-> socket]
    /\ UNCHANGED gameVars

\* A connected client sends "nickname"
Nickname(socket, nickname) ==
    /\ sockets[socket].connected
    /\ \E out \in {onNickname(server, sockets, socket, [nickname |-> nickname])} :
          /\ server' = out.server
          /\ sockets' = out.sockets
          /\ clients' = IF out.world # <<>>
                        THEN [clients EXCEPT ![socket] = onWorld(@, out.world[1])]
                        ELSE onKick(sockets, out.sockets)
    /\ last' = [op |-> "onNickname", socket |-> socket]
    /\ UNCHANGED gameVars

\* A connected client sends "setblock"; every connected client receives
\* what the server broadcasts.
BlockUpdate(socket, data, elapsed) ==
    /\ sockets[socket].connected
    /\ (/\ Has(sockets[socket], "_nickname")
        /\ sockets[socket]._nickname \in DOMAIN server.world.players)
       => server.world.players[sockets[socket]._nickname].blocks < MaxBlocks
    /\ \E out \in {onBlockUpdate(server, sockets, socket, data, elapsed)} :
          /\ server' = out.server
          /\ sockets' = out.sockets
          /\ clients' = IF out.emit # <<>>
                        THEN [s \in Sockets |->
                                 IF sockets[s].connected
                                 THEN clientOnBlockUpdate(clients[s], out.emit[1])
                                 ELSE clients[s]]
                        ELSE onKick(sockets, out.sockets)
    /\ last' = [op |-> "onBlockUpdate", socket |-> socket]
    /\ UNCHANGED gameVars

\* A connected client closes its connection: "disconnect"
Disconnect(socket) ==
    /\ sockets[socket].connected
    /\ \E closed \in {[sockets EXCEPT ![socket].connected = FALSE]} :
       \E out \in {onDisconnect(server, closed, socket)} :
          /\ server' = out.server
          /\ sockets' = out.sockets
    /\ last' = [op |-> "onDisconnect", socket |-> socket]
    /\ UNCHANGED <<gameVars, clients>>

\* server.kick( socket, msg ) on a connected client
Kick(socket) ==
    /\ sockets[socket].connected
    /\ \E out \in {kick(server, sockets, socket)} :
          /\ server' = out.server
          /\ sockets' = out.sockets
          /\ clients' = onKick(sockets, out.sockets)
    /\ last' = [op |-> "kick", socket |-> socket]
    /\ UNCHANGED gameVars

\* The slot limits a server is started with: none, and two.
SlotLimits == {<<>>, <<2>>}

\* Nicknames clients send: "b", "B", " b", "<", "" and one of 16 characters.
Nicknames ==
    {<<CHAR.b>>, <<CHAR.B>>, <<CHAR.space, CHAR.b>>, <<CHAR.lt>>, <<>>,
     [i \in 1 .. 16 |-> CHAR.b]}

\* Block updates clients send: AIR, DIRT, BEDROCK and an unknown id at the
\* far cell; DIRT next to the spawn point and outside the world; one
\* without mat.
BlockData ==
    {[x |-> farCell[1], y |-> farCell[2], z |-> farCell[3], mat |-> m] : m \in {0, 2, 1, 99}}
    \cup {[x |-> nearCell[1], y |-> nearCell[2], z |-> nearCell[3], mat |-> 2],
          [x |-> serverSize, y |-> 0, z |-> 0, mat |-> 2],
          [x |-> 0, y |-> 0, z |-> 0]}

InitServer ==
    /\ \E heights \in [Columns -> finalHeights(SZ)] :
          \E world \in {newWorld(SX, SY, SZ, [noEnv EXCEPT !.heights = heights]).val} :
              /\ blocks = [c \in Cells |-> world.blocks[c]]
              /\ lightmap = world.lightmap
    /\ renderer = FALSE
    /\ chunkSize = defaultChunkSize
    /\ camPos = <<>>
    /\ viewMatrix = [ang |-> <<0, 0, 0>>, pos |-> <<0, 0, 0>>]
    /\ projMatrix = [aspect |-> squareCanvas]
    /\ eventQueue = <<>>
    /\ chunkMap = emptyMap
    /\ chunkLoadQueue = <<>>
    /\ xrayCache = emptyMap
    /\ xrayActive = FALSE
    /\ chunks = <<>>
    /\ glBuffers = {}
    /\ \E slots \in SlotLimits, oneUserPerIp \in BOOLEAN : connectToServer(slots, oneUserPerIp)
    /\ last = [op |-> "new World"]

\* Connections, nicknames, kicks and disconnections, for each way of
\* starting the server.
NextServer ==
    \/ \E socket \in Sockets : Connection(socket)
    \/ \E socket \in Sockets, nickname \in Nicknames : Nickname(socket, nickname)
    \/ \E socket \in Sockets : Disconnect(socket)
    \/ \E socket \in Sockets : Kick(socket)

SpecServer == InitServer /\ [][NextServer]_vars

\* X-ray toggled with the player in cell (0, 0, 0), the player updated any
\* number of times, and blocks placed while x-ray is off.
XrayBlocks == {BLOCK.DIRT, BLOCK.GLASS, BLOCK.AIR}

NextXray ==
    \/ ~xrayActive /\ \E pos \in InCoords, type \in XrayBlocks : SetBlock(pos, type)
    \/ ToggleXray(<<0, 0, 0>>)
    \/ PlayerUpdate(<<0, 0, 0>>)

SpecXray == Init /\ [][NextXray]_vars

\* Blocks with gravity and AIR placed in two columns, and physics steps.
PhysicsCoords == {<<0, 0, 0>>, <<0, 0, SZ - 1>>, <<1, 0, 0>>, <<1, 0, SZ - 1>>}
PhysicsBlocks == {BLOCK.SAND, BLOCK.GRAVEL, BLOCK.WATER, BLOCK.LAVA, BLOCK.AIR}

NextPhysics ==
    \/ \E pos \in PhysicsCoords, type \in PhysicsBlocks : SetBlock(pos, type)
    \/ \E fluids \in BOOLEAN : Simulate(fluids)

SpecPhysics == Init /\ [][NextPhysics]_vars

\* Two players from different addresses on the server connectToServer
\* starts, changing blocks.
Builders == {"s1", "s3"}
BuilderNicknames == {<<CHAR.b>>, <<CHAR.t>>}

NextBlocks ==
    \/ \E socket \in Builders : Connection(socket)
    \/ \E socket \in Builders, nickname \in BuilderNicknames : Nickname(socket, nickname)
    \/ \E socket \in Builders, data \in BlockData, elapsed \in BOOLEAN :
          BlockUpdate(socket, data, elapsed)
    \/ \E socket \in Builders : Disconnect(socket)
    \/ \E socket \in Builders : Kick(socket)

SpecBlocks == Init /\ [][NextBlocks]_vars


\* ------------------------------------------------------------------------
\* Properties
\* ------------------------------------------------------------------------

\* o.k, with -1 for undefined
prop(o, k) == IF Has(o, k) THEN o[k] ELSE -1

\* Same id and the same transparent / fluid / gravity / selflit flags.
Equivalent(a, b) ==
    \A k \in {"id", "transparent", "fluid", "gravity", "selflit"} : prop(a, k) = prop(b, k)

\* C1: after setBlock(x,y,z,b) on an in-bounds cell with a registry block
\* b, getBlock(x,y,z) returns a block equivalent to b.  Stated for the call
\* just made, and for every registry block on the probed cells of every
\* reachable grid.
C1_SetThenGet ==
    /\ (last.op = "setBlock" /\ last.pos \in Cells /\ last.type \in Registry) =>
          LET got == getBlock(blocks, last.pos[1], last.pos[2], last.pos[3])
          IN  /\ Returned(last.ret, TRUE)
              /\ got.kind = "return"
              /\ Equivalent(got.val, last.type)
    /\ \A c \in InCoords, b \in Registry :
          LET out == setBlock(blocks, renderer, c[1], c[2], c[3], b)
              got == getBlock(out.blocks, c[1], c[2], c[3])
          IN  /\ Returned(out.ret, TRUE)
              /\ got.kind = "return"
              /\ Equivalent(got.val, b)

C1_Witness ==
    /\ last.op = "setBlock"
    /\ last.pos = <<0, 0, SZ - 1>>
    /\ last.type = BLOCK.DIRT
    /\ Returned(last.ret, TRUE)

\* C2: a second identical setBlock right after a successful one leaves the
\* grid as it was and adds no second block-changed notification.
C2_RepeatMarksOnce ==
    [][(/\ last.op = "setBlock"
        /\ last'.op = "setBlock"
        /\ last'.pos = last.pos
        /\ last'.type = last.type
        /\ Returned(last.ret, TRUE))
       => (blocks' = blocks /\ eventQueue' = eventQueue)]_vars

\* C3: getBlock on a coordinate outside the world on one axis returns null,
\* the one sentinel, and does not throw.  Stated for the call just made,
\* and for every coordinate up to two cells outside on one axis.
AxisValues(size) == {-2, -1, 0, size - 1, size, size + 1}

C3_OutOfBoundsSentinel ==
    /\ (last.op = "getBlock" /\ last.pos \notin Cells) => Returned(last.ret, Null)
    /\ \A x \in AxisValues(SX), y \in AxisValues(SY), z \in AxisValues(SZ) :
          Cardinality({i \in 1 .. 3 : <<x, y, z>>[i] < 0 \/ <<x, y, z>>[i] >= <<SX, SY, SZ>>[i]}) = 1
             => Returned(getBlock(blocks, x, y, z), Null)

C3_Witness ==
    /\ last.op = "getBlock"
    /\ last.pos = <<0, 0, SZ>>
    /\ Returned(last.ret, Null)

\* C4: setBlock on a coordinate outside the world returns false and leaves
\* the grid, the lightmap, the chunks and the pending notifications alone.
C4_OutOfBoundsNoop ==
    [][(last'.op = "setBlock" /\ last'.pos \notin Cells)
       => (/\ Returned(last'.ret, FALSE)
           /\ blocks' = blocks
           /\ lightmap' = lightmap
           /\ chunkMap' = chunkMap
           /\ eventQueue' = eventQueue)]_vars

C4_Witness ==
    /\ last.op = "setBlock"
    /\ last.pos \notin Cells
    /\ Returned(last.ret, FALSE)
    /\ renderer
    /\ DOMAIN chunkMap # {}
    /\ eventQueue # <<>>

\* C5: setBlock with a malformed block (null, undefined, no numeric id) on
\* an in-bounds cell does not throw, returns true and leaves AIR in the
\* cell.
C5_MalformedFallsBackToAir ==
    (last.op = "setBlock" /\ last.pos \in Cells /\ last.type \in Malformed) =>
        /\ Returned(last.ret, TRUE)
        /\ prop(blocks[last.pos], "id") = BLOCK.AIR.id

\* C6: right after a successful setBlock on a cell of a loaded chunk, that
\* chunk is dirty.
C6_SetBlockMarksDirty ==
    (/\ last.op = "setBlock"
     /\ Returned(last.ret, TRUE)
     /\ getChunkKey(last.pos[1], last.pos[2], last.pos[3]) \in DOMAIN chunkMap)
    => chunkMap[getChunkKey(last.pos[1], last.pos[2], last.pos[3])].dirty

\* C7: for every column that has an opaque cell, the lightmap holds the
\* highest z of an opaque cell.
opaqueZ(x, y) == {z \in 0 .. SZ - 1 : ~Truthy(blocks[<<x, y, z>>], "transparent")}

C7_LightmapIsHeightmap ==
    \A c \in Columns :
        opaqueZ(c[1], c[2]) # {} =>
            /\ lightmap[c] \in opaqueZ(c[1], c[2])
            /\ \A z \in opaqueZ(c[1], c[2]) : z <= lightmap[c]

\* A string createFromString accepts whose characters all encode registry
\* ids.
validString(str) ==
    /\ Len(str) = SX * SY * SZ
    /\ \A i \in 1 .. Len(str) : \E t \in BlockTypes : BLOCK[t].id = str[i] - 97

\* C8: toNetworkString() right after createFromString(s), for a valid s,
\* gives back s.
C8_RoundTrip ==
    (last.op = "createFromString" /\ last.ret.kind = "return" /\ validString(last.str))
        => toNetworkString(blocks) = last.str

C8_Witness ==
    /\ last.op = "createFromString"
    /\ last.ret.kind = "return"
    /\ last.str = withChars(118, 99)

\* C9: the serialized world has sx*sy*sz characters and the character at
\* index (x*sy + y)*sz + z is 97 + the id of cell (x,y,z); createFromString
\* decodes cell (x,y,z) from that same index.
stringIndex(c) == (c[1] * SY + c[2]) * SZ + c[3] + 1

C9_StringLayout ==
    /\ last.op = "toNetworkString" =>
          /\ Len(last.ret.val) = SX * SY * SZ
          /\ \A c \in Cells :
                last.ret.val[stringIndex(c)]
                    = 97 + getBlock(blocks, c[1], c[2], c[3]).val.id
    /\ (last.op = "createFromString" /\ last.ret.kind = "return") =>
          \A c \in Cells : blocks[c] = fromId(last.str[stringIndex(c)] - 97)

C9_Witness ==
    /\ last.op = "toNetworkString"
    /\ last.ret.val[stringIndex(<<0, 0, SZ - 1>>)] = 99
    /\ last.ret.val[stringIndex(<<SX - 1, SY - 1, SZ - 1>>)] = 97

\* C10: createFromString on a string whose length is not sx*sy*sz throws
\* the length error and modifies no cell.
C10_SizeMismatch ==
    [][(last'.op = "createFromString" /\ Len(last'.str) # SX * SY * SZ)
       => (/\ last'.ret = Throw("Error: String length does not match world dimensions.")
           /\ blocks' = blocks)]_vars

C10_Witness ==
    /\ last.op = "createFromString"
    /\ Len(last.str) = SX * SY * SZ + 1
    /\ Threw(last.ret)
    /\ blocks[<<0, 0, SZ - 1>>].id = 2

\* The call made last created a World (constructor or generateWorld).
created == Has(last, "dims")

\* C11: creation with a dimension <= 0 or > 254 fails, through the
\* constructor and through generateWorld.
C11_InvalidDimensionRejected ==
    (created /\ \E i \in 1 .. 3 : last.dims[i] <= 0 \/ last.dims[i] > 254)
        => Threw(last.ret)

\* C12: creation with every dimension in 1..254 does not throw.
C12_GenerationNeverSurfaces ==
    (created /\ \A i \in 1 .. 3 : last.dims[i] >= 1 /\ last.dims[i] <= 254)
        => last.ret.kind = "return"

\* C14: two creations in a row with the same size and the same seed (the
\* same noise) serialize to the same string.
C14_Deterministic ==
    [][(/\ created
        /\ Has(last', "dims")
        /\ last'.dims = last.dims
        /\ last'.env.heights = last.env.heights
        /\ last'.env.caves = last.env.caves
        /\ last'.env.deep = last.env.deep
        /\ last.ret.kind = "return"
        /\ last'.ret.kind = "return")
       => worldString(last'.ret.val) = worldString(last.ret.val)]_vars

sameBlock(a, b) ==
    \A k \in (DOMAIN a \cup DOMAIN b) \ {"metadata"} : prop(a, k) = prop(b, k)

passed == last.op = "updateChunksAroundPlayer" /\ last.ran

\* The chunk-map key of a queue entry
keyOf(e) == getChunkKey(e.x, e.y, e.z)

\* The keys the pass recorded last added to the chunk map
added == DOMAIN chunkMap \ DOMAIN last.before

\* C16: when updateChunksAroundPlayer returns, every chunk of the chunk map
\* lies within unloadDistance (Euclidean, in chunk units) of the camera
\* chunk.
C16_FarChunksUnloaded ==
    (passed /\ last.ret.kind = "return") =>
        \A k \in DOMAIN chunkMap :
            distance2(k, last.cam) <= unloadDistance * unloadDistance

\* A pass returned after it dropped a chunk and kept another one.
C16_Witness ==
    /\ passed
    /\ last.ret.kind = "return"
    /\ \E k \in DOMAIN last.before : k \notin DOMAIN chunkMap
    /\ \E k \in DOMAIN last.before : k \in DOMAIN chunkMap

\* C17: one updateChunksAroundPlayer call adds at most maxChunksPerFrame
\* entries to the chunk map, however long the queue is.
C17_AtMostMaxChunksPerFrame ==
    last.op = "updateChunksAroundPlayer" =>
        Cardinality(added) <= maxChunksPerFrame

\* A pass queued more than maxChunksPerFrame chunks and added
\* maxChunksPerFrame of them.
C17_Witness ==
    /\ passed
    /\ Len(last.pushed) > maxChunksPerFrame
    /\ Cardinality(added) = maxChunksPerFrame

\* The chunk coordinates that hold a cell of the world
worldChunks == {getChunkKey(c[1], c[2], c[3]) : c \in Cells}

\* C18: the load queue built by a pass holds exactly the chunk coordinates
\* inside the world, within loadDistance of the camera chunk and not in the
\* chunk map, each once; no chunk the map already held is queued or
\* created again.
C18_QueueContents ==
    passed =>
        LET expected == {c \in worldChunks :
                            /\ distance2(c, last.cam) <= loadDistance * loadDistance
                            /\ c \notin DOMAIN last.before}
        IN  /\ {keyOf(last.pushed[i]) : i \in 1 .. Len(last.pushed)} = expected
            /\ Len(last.pushed) = Cardinality(expected)
            /\ \A i \in 1 .. Len(last.made) : keyOf(last.made[i]) \notin DOMAIN last.before

\* A pass found a loaded chunk in range, queued others and created some.
C18_Witness ==
    /\ passed
    /\ \E k \in DOMAIN last.before :
          distance2(k, last.cam) <= loadDistance * loadDistance
    /\ Len(last.pushed) > 0
    /\ Len(last.made) > 0

\* The place of a chunk in the queue as pushed
pushedAt(e) == CHOOSE i \in 1 .. Len(last.pushed) : last.pushed[i] = e

\* C19: chunks are created in ascending priority, equal priorities in the
\* order they were pushed; no chunk is created while a queued chunk of
\* strictly lower priority is left.
C19_PriorityOrder ==
    passed =>
        /\ \A a, b \in 1 .. Len(last.made) :
              a < b =>
                  /\ ~priorityLess(last.made[b], last.made[a])
                  /\ ~priorityLess(last.made[a], last.made[b]) =>
                         pushedAt(last.made[a]) < pushedAt(last.made[b])
        /\ \A a \in 1 .. Len(last.made), j \in 1 .. Len(last.pushed) :
              keyOf(last.pushed[j]) \notin DOMAIN chunkMap =>
                  /\ ~priorityLess(last.pushed[j], last.made[a])
                  /\ ~priorityLess(last.made[a], last.pushed[j]) =>
                         pushedAt(last.made[a]) < j

\* A pass created a chunk that was pushed after a chunk it left queued,
\* and left queued a chunk of the same priority as one it created.
C19_Witness ==
    /\ passed
    /\ \E a \in 1 .. Len(last.made), j \in 1 .. Len(last.pushed) :
          /\ keyOf(last.pushed[j]) \notin DOMAIN chunkMap
          /\ j < pushedAt(last.made[a])
    /\ \E a \in 1 .. Len(last.made), j \in 1 .. Len(last.pushed) :
          /\ keyOf(last.pushed[j]) \notin DOMAIN chunkMap
          /\ ~priorityLess(last.pushed[j], last.made[a])
          /\ ~priorityLess(last.made[a], last.pushed[j])

\* C20: two passes with the same camera chunk and the same pitch and yaw
\* give every chunk the same priority, wherever the camera stands inside
\* its chunk.
C20_PriorityFromAngles ==
    [][(/\ last.op = "updateChunksAroundPlayer"
        /\ last'.op = "updateChunksAroundPlayer"
        /\ last.ran
        /\ last'.ran
        /\ last.cam = last'.cam
        /\ last.ang = last'.ang)
       => last'.priority = last.priority]_vars

\* The size of the world along each axis
dims == <<SX, SY, SZ>>

\* C22: every chunk of the map starts on a multiple of chunkSize inside the
\* world, ends at min(start + chunkSize, size) on each axis, is not empty,
\* and is stored under the key of its own chunk coordinate.
C22_ChunkAligned ==
    \A k \in DOMAIN chunkMap :
        LET chunk == chunkMap[k]
        IN  /\ \A i \in 1 .. 3 :
                  /\ chunk.start[i] % chunkSize = 0
                  /\ 0 <= chunk.start[i]
                  /\ chunk.start[i] < dims[i]
                  /\ chunk.end[i] = min(chunk.start[i] + chunkSize, dims[i])
                  /\ chunk.start[i] < chunk.end[i]
                  /\ k[i] = chunk.start[i] \div chunkSize
            /\ k = getChunkKey(chunk.start[1], chunk.start[2], chunk.start[3])

\* The map holds a chunk cut short by the edge of the world next to a
\* chunk of full width.
C22_Witness ==
    /\ \E k \in DOMAIN chunkMap : chunkMap[k].end[1] < chunkMap[k].start[1] + chunkSize
    /\ \E k \in DOMAIN chunkMap : chunkMap[k].end[1] = chunkMap[k].start[1] + chunkSize
    /\ \E k \in DOMAIN chunkMap : chunkMap[k].start[1] > 0

\* The live buffers made for a chunk
liveBuffersOf(chunk) == {b \in glBuffers : b.start = chunk.start}

emitsNoFace(chunk) ==
    \A c \in Cells :
        (\A i \in 1 .. 3 : chunk.start[i] <= c[i] /\ c[i] < chunk.end[i])
           => Returned(pushVertices(blocks, c[1], c[2], c[3]), 0)

\* The step built chunk i of the list
builtNow(i) ==
    IF last'.op = "buildChunk" THEN last'.i = i /\ ~Threw(last'.ret)
    ELSE IF last'.op = "updateViewport" THEN ~chunks'[i].dirty
    ELSE IF last'.op \in {"buildChunks", "buildChunksAroundPlayer", "processEvents"}
    THEN chunks[i].dirty /\ ~chunks'[i].dirty
    ELSE FALSE

allocationFailed ==
    IF last'.op = "buildChunk"
    THEN ~allocAt(last'.alloc, 1) /\ ~emitsNoFace(chunks[last'.i])
    ELSE last'.logged

C27_PassSurvivesBadChunk ==
    (last.op = "updateChunksAroundPlayer" /\ last.ran) =>
        Cardinality({keyOf(last.pushed[i]) : i \in 1 .. Len(last.pushed)}
                       \cap (DOMAIN chunkMap \ DOMAIN last.before))
           = min(maxChunksPerFrame, Len(last.pushed))

\* The cell next to c on side i (1 top, 2 bottom, 3 front, 4 back, 5 left,
\* 6 right)
neighbour(c, i) ==
    LET d == << <<0, 0, 1>>, <<0, 0, -1>>, <<0, -1, 0>>, <<0, 1, 0>>, <<-1, 0, 0>>, <<1, 0, 0>> >>[i]
    IN  <<c[1] + d[1], c[2] + d[2], c[3] + d[3]>>

\* The face of c on side i is to be drawn: the neighbour is outside the
\* world or transparent, or the face is the top of a fluid block.
faceVisible(c, i) ==
    \/ neighbour(c, i) \notin Cells
    \/ Truthy(blocks[neighbour(c, i)], "transparent")
    \/ i = 1 /\ Truthy(blocks[c], "fluid")

\* C23: for every cell that is not air and each of its six sides, the mesh
\* builder pushes a quad exactly when the neighbour on that side is outside
\* the world or transparent (on top also when the block is a fluid).
C23_FaceCulling ==
    \A c \in Cells :
        ~(Has(blocks[c], "id") /\ blocks[c].id = BLOCK.AIR.id) =>
            \A i \in 1 .. 6 : (i \in pushedFaces(blocks, c[1], c[2], c[3])) <=> faceVisible(c, i)

\* The chunk contains the position
contains(chunk, pos) ==
    \A i \in 1 .. 3 : chunk.start[i] <= pos[i] /\ pos[i] < chunk.end[i]

\* C25: whatever the position and the orientation of the camera, the chunk
\* that contains the camera passes the frustum test.
C25_CameraChunkInFrustum ==
    camPos # <<>> =>
        \A k \in DOMAIN chunkMap :
            contains(chunkMap[k], camPos) =>
                isChunkInFrustum(updateFrustumPlanes(perspectiveNO(projMatrix.aspect),
                                                     currentView),
                                 chunkMap[k])

\* The keys the pass recorded last removed from the chunk map
evicted == DOMAIN last.before \ DOMAIN chunkMap

\* C29: a pass creates chunks only within loadDistance of the camera chunk
\* and evicts chunks only beyond unloadDistance; a chunk evicted by one
\* pass is created by the next only when the camera chunk has moved by
\* more than unloadDistance - loadDistance in between.
C29_Hysteresis ==
    /\ [](passed =>
             /\ \A i \in 1 .. Len(last.made) :
                   distance2(keyOf(last.made[i]), last.cam) <= loadDistance * loadDistance
             /\ \A k \in evicted :
                   distance2(k, last.cam) > unloadDistance * unloadDistance)
    /\ [][(passed /\ last'.op = "updateChunksAroundPlayer" /\ last'.ran)
          => \A i \in 1 .. Len(last'.made) :
                keyOf(last'.made[i]) \in evicted =>
                    distance2(last.cam, last'.cam)
                       > (unloadDistance - loadDistance) * (unloadDistance - loadDistance)]_vars

\* A pass evicted chunks and kept a loaded chunk that lies between the two
\* distances; another pass created chunks.
C29_Witness ==
    /\ passed
    /\ evicted # {}
    /\ \E k \in DOMAIN chunkMap :
          /\ k \in DOMAIN last.before
          /\ distance2(k, last.cam) > loadDistance * loadDistance
          /\ distance2(k, last.cam) <= unloadDistance * unloadDistance

\* Every chunk of the world within loadDistance of the camera chunk is in
\* the chunk map.
allLoaded ==
    /\ camPos # <<>>
    /\ \A c \in worldChunks :
          distance2(c, playerChunk(camPos)) <= loadDistance * loadDistance
             => c \in DOMAIN chunkMap

\* C30: with the camera staying in its chunk and the passes going on, from
\* some pass on every chunk of the world within loadDistance is in the
\* chunk map and the load queue is empty.
C30_QueueDrains == <>[](allLoaded /\ chunkLoadQueue = <<>>)

\* After several passes, some of them cut short by a failed allocation,
\* every chunk in range is loaded and the queue is empty.
C30_Witness ==
    /\ passed
    /\ allLoaded
    /\ chunkLoadQueue = <<>>
    /\ Cardinality(DOMAIN chunkMap) > maxChunksPerFrame
    /\ \E k \in DOMAIN chunkMap : chunkMap[k].dirty

\* The chunk keys of a world cut into chunks of smallChunkSize
ChunkKeys ==
    (0 .. (SX - 1) \div smallChunkSize) \X (0 .. (SY - 1) \div smallChunkSize)
        \X (0 .. (SZ - 1) \div smallChunkSize)

stale(k) == k \in DOMAIN chunkMap /\ chunkMap[k].dirty

\* The last call was a draw that found the canvas resized
resizing == last.op = "draw" /\ last.resized

\* C28: with the frames going on and the canvas no longer resized, no chunk
\* stays in the chunk map dirty for ever: a dirty chunk is clean again
\* later, unless it has left the map.
C28_DirtyChunkRebuilt ==
    <>[](~resizing) => \A k \in ChunkKeys : []<>(~stale(k))

\* C31: one iteration of the game loop materializes at most
\* maxChunksPerFrame chunks, its streaming pass and its draw taken together.
C31_FrameCap ==
    last.op = "gameLoop" => Len(last.first) + Len(last.second) <= maxChunksPerFrame

\* The buffers the chunks of the chunk map and of the chunk list hold
heldBuffers ==
    {chunkMap[k].buffer : k \in DOMAIN chunkMap} \cup {chunks[i].buffer : i \in DOMAIN chunks}

\* C32: every buffer created and not deleted is held by a chunk of the
\* chunk map or of the chunk list, and when setWorld or cleanup returns no
\* buffer made for a chunk is left alive.
C32_NoOrphanedMesh ==
    /\ glBuffers \subseteq heldBuffers
    /\ last.op \in {"setWorld", "cleanup"} => glBuffers = {}

\* The columns updateLightingAt( x, y, z ) may touch: its own and the four
\* next to it
around(pos) ==
    {<<pos[1], pos[2]>>, <<pos[1] + 1, pos[2]>>, <<pos[1] - 1, pos[2]>>,
     <<pos[1], pos[2] + 1>>, <<pos[1], pos[2] - 1>>}

\* C33: updateLightingAt( x, y, z ) changes no cell of the grid; it changes
\* no lightmap entry but those of column (x, y) and of the four columns
\* next to it; and it changes nothing at all for a cell outside the world
\* or a cell holding a transparent block.
C33_LightingLocal ==
    last.op = "updateLightingAt" =>
        /\ blocks = last.grid
        /\ \A c \in Columns \ around(last.pos) : lightmap[c] = last.light[c]
        /\ ( \/ ~isInBounds(last.pos[1], last.pos[2], last.pos[3])
             \/ Truthy(last.grid[last.pos], "transparent") ) => lightmap = last.light

\* updateLightingAt on a self-lit opaque block has raised the entry of its
\* column and of a column next to it.
C33_Witness ==
    /\ last.op = "updateLightingAt"
    /\ isInBounds(last.pos[1], last.pos[2], last.pos[3])
    /\ lightmap[<<last.pos[1], last.pos[2]>>] # last.light[<<last.pos[1], last.pos[2]>>]
    /\ \E c \in around(last.pos) \ {<<last.pos[1], last.pos[2]>>} :
          c \in Columns /\ lightmap[c] # last.light[c]

\* A nickname some connected socket carries, whatever the case of its letters
held(nickname) ==
    \E s \in Sockets :
        /\ sockets[s].connected
        /\ Has(sockets[s], "_nickname")
        /\ toLowerCase(sockets[s]._nickname) = toLowerCase(nickname)

\* C34: no two connected players carry the same nickname (compared without
\* regard to case, after sanitising), whatever nicknames are sent and
\* however nickname, kick and disconnect events interleave; and a nickname
\* no connected player carries is not refused as being in use.
C34_UniqueNicknames ==
    /\ \A s1 \in Sockets, s2 \in Sockets :
          (/\ s1 # s2
           /\ sockets[s1].connected /\ sockets[s2].connected
           /\ Has(sockets[s1], "_nickname") /\ Has(sockets[s2], "_nickname"))
          => toLowerCase(sockets[s1]._nickname) # toLowerCase(sockets[s2]._nickname)
    /\ \A nickname \in Nicknames :
          ~held(sanitiseInput(nickname))
          => ~\E n \in server.activeNicknames :
                 toLowerCase(n) = toLowerCase(sanitiseInput(nickname))

\* A client the server accepted and has not lost
accepted(socket) == sockets[socket].connected /\ sockets[socket].handlers

\* C35: usedSlots is the number of connected accepted clients, never above
\* maxSlots when a limit is set, never negative; while the one-user-per-IP
\* rule is on, no two connected accepted clients come from the same
\* address.
C35_SlotsAndAddresses ==
    /\ server.usedSlots = Cardinality({s \in Sockets : accepted(s)})
    /\ Has(server, "maxSlots") => server.usedSlots <= server.maxSlots
    /\ server.usedSlots >= 0
    /\ server.oneUserPerIp
       => \A s1 \in Sockets, s2 \in Sockets :
             (s1 # s2 /\ accepted(s1) /\ accepted(s2)) => getIp(s1) # getIp(s2)

\* A connection has just been refused while another client is connected
\* and a third one was kicked or has left.
C35_Witness ==
    /\ last.op = "onConnection"
    /\ ~sockets[last.socket].connected
    /\ server.usedSlots >= 1
    /\ \E s \in Sockets \ {last.socket} : ~sockets[s].connected /\ clients[s].kicked

\* C36: every connected client that holds a world holds, in every cell,
\* the block id the server holds there.
C36_ClientsFollowServer ==
    \A s \in Sockets :
        (sockets[s].connected /\ Has(clients[s], "world"))
        => \A c \in NetCells :
              clients[s].world.blocks[c].id = server.world.blocks[c].id

\* C37: when x-ray is switched off, whatever number of player updates ran
\* while it was on, every cell has the block id and the transparent flag it
\* had before x-ray was switched on, and no cell is marked xray.
C37_XrayReversible ==
    [][(xrayActive /\ ~xrayActive')
       => \A c \in Cells :
             /\ blocks'[c].id = last.grid[c].id
             /\ blocks'[c].transparent = last.grid[c].transparent
             /\ ~Truthy(blocks'[c], "xray")]_vars

\* A gravity block above ground level with AIR directly below
hangs(c) ==
    /\ c[3] > 0
    /\ Truthy(blocks[c], "gravity")
    /\ blocks[<<c[1], c[2], c[3] - 1>>].id = BLOCK.AIR.id

\* C38: a simulate step does not raise, and every block with gravity that
\* has AIR directly below it is one cell lower afterwards, with AIR where it
\* was.
C38_GravityFalls ==
    [][(last'.op = "simulate" /\ \E c \in Cells : hangs(c))
       => /\ ~Threw(last'.ret)
          /\ \A c \in Cells :
                hangs(c) => /\ blocks'[<<c[1], c[2], c[3] - 1>>].id = blocks[c].id
                            /\ blocks'[c].id = BLOCK.AIR.id]_vars

\* The grid generateTerrain hands to generateCaves in the creation recorded
\* last: column fills and trees.
filledTerrain ==
    [c \in cellsOf(last.dims[1], last.dims[2], last.dims[3]) |->
        addTree(last.dims[1], last.dims[2], last.dims[3], last.env, c[1], c[2], c[3])]

\* C39: in the terrain handed to cave carving every tree that was placed
\* has its whole trunk and, on all sides, every leaf of its four canopy
\* layers: no later column fill has overwritten any of them.
C39_TreesKeepCanopy ==
    Has(last, "dims")
    => \A t \in last.env.trees :
          treeAt(last.dims[1], last.dims[2], last.dims[3], last.env, t)
          => \A c \in cellsOf(last.dims[1], last.dims[2], last.dims[3]) :
                IF <<c[1], c[2]>> = t /\ trunkCell(last.env, t, c[3])
                THEN filledTerrain[c].id = BLOCK.WOOD.id
                ELSE leafCell(last.env, t, c[1], c[2], c[3])
                     => filledTerrain[c].id = BLOCK.LEAVES.id

====
